---- MODULE Spec2Model ----
(***************************************************************************)
(* Verification model of the Lutum Veritas research orchestrator:          *)
(*   - the citation registry of a Flat / Academic run (renumber_citations) *)
(*   - the NDJSON generators of /research/run, /research/deep and          *)
(*     /research/academic                                                  *)
(*   - the checkpoint store and /research/resume                           *)
(*   - the URL navigation paths (scrape_urls_batch, Ask scrape phases)     *)
(*   - the Ask event bus (emit_ask_event / ask_events)                     *)
(* Each part has its own specification over its own variables; the         *)
(* variables of the other parts stay at their idle values.                 *)
(***************************************************************************)
EXTENDS Integers, Sequences, FiniteSets, TLC

\* ---------------------------------------------------------------- bounds
\* number of plan points of a modelled run
MaxPoints == 2
\* largest local citation number fed to renumber_citations on its own
MaxLocal == 3
\* largest start number fed to renumber_citations on its own
MaxStart == 3
\* capacity of a session's event queue in the model (asyncio.Queue(maxsize=100))
QueueMaxSize == 3
\* number of stage envelopes an Ask pipeline emits between starting and done
MaxEmits == 3
\* number of keep-alive pings a subscriber sends
MaxPings == 1
\* number of per-point LLM calls before the final call
MaxSyncCalls == 2
\* number of turns other tasks of the event loop get
MaxServed == 3
\* number of URLs the searches of one Ask scrape phase find
MaxScrapeUrls == 2
\* entries the live log buffer holds (the deque's maxlen, 100 in the code)
MaxLogBuffer == 1
\* log records produced by the logging threads
MaxRecords == 2
\* calls of get_and_clear_log_buffer
MaxFlushes == 2
\* points of a run whose status messages are followed
MaxStatusPoints == 2
\* LLM calls of one session
MaxLlmCalls == 2
\* URLs scraped in parallel in one Ask scrape phase (at most ASK_URL_LIMIT)
MaxParallel == 3

\* ------------------------------------------------------ input domains
\* number of envelopes one flush_log_buffer() yields
LogCounts == 0..1
\* number of URLs parse_pick_urls_response returns (the retry asks for >= 2)
PickCounts == 0..2
\* lengths of the research plan of a Flat request
FlatPlans == 0..2
\* area layouts of an Academic plan: points per area
AcademicPlans == {<<>>, <<1>>, <<2>>, <<1, 1>>}
\* local citation numbers an LLM reply uses within a modelled run
RunLocalNums == 0..2
\* numbers of scraped pages of one dossier (scraped_content is not empty)
UrlCounts == 1..2

VARIABLES
    \* --- citation registry of one generate() run (research.py:815-822)
    source_registry,      \* dict global index -> url
    source_counter,       \* next free global index
    point_index,          \* points taken from the plan so far
    completed_dossiers,   \* list of {dossier, sources}
    accumulated_learnings,\* list of renumbered key_learnings texts
    last,                 \* the point that ran last (its inputs and intermediate values)
    all_contiguous        \* every dossier so far cited exactly [1]..[k] and had >= k URLs

citeVars == <<source_registry, source_counter, point_index, completed_dossiers,
              accumulated_learnings, last, all_contiguous>>

VARIABLES
    \* --- one call of renumber_citations on its own
    rn_in,                \* its arguments {text, urls, start}
    rn_out                \* its result {text, next, registry}, or NoResult

rnVars == <<rn_in, rn_out>>

VARIABLES
    \* --- one NDJSON generator (generate() of /research/run, /deep, /academic)
    request,              \* the request the generator was created for
    gen,                  \* the generator's position and locals
    stream                \* the envelopes yielded so far, in order

streamVars == <<request, gen, stream>>

VARIABLES
    \* --- URL navigation
    nav                   \* the last scrape call: caller, urls given, urls navigated to

navVars == <<nav>>

VARIABLES
    \* --- checkpoint store and /research/resume
    proc,                 \* the backend process: "up" or "down"
    run,                  \* the Flat run that writes the checkpoints
    disk,                 \* <root>/<session_id>/checkpoint.json
    seen,                 \* what the last GET /research/session/{id} found in the file
    resume,               \* the last POST /research/resume: checkpoint read, reply
    store,                \* a file written by the benchmark JsonStore, with its .tmp and .bak
    listing               \* what the last GET /research/sessions answered

ckptVars == <<proc, run, disk, seen, resume, store, listing>>

VARIABLES
    \* --- Ask event bus of one session
    bus,                  \* the session's queue (if registered) and every emit so far
    pipe,                 \* the Ask pipeline task
    sub                   \* the SSE subscriber of /ask/events/{session_id}

busVars == <<bus, pipe, sub>>

VARIABLES
    \* --- the URL pick of one Flat point (STEP C with its retry, STEP D)
    pick                  \* LLM replies, selected_urls, retry count, outcome

pickVars == <<pick>>

VARIABLES
    \* --- the Flat runs served at the same time and their checkpoint files
    runs,                 \* request, session id and loop locals of each run
    files                 \* session id -> checkpoint.json of that session

sessVars == <<runs, files>>

VARIABLES
    \* --- the event loop around the final LLM call of a Flat / Academic run
    loop                  \* generator position, loop thread, worker thread, envelopes

loopVars == <<loop>>

VARIABLES
    \* --- the learnings handed to the prompts of an Academic run
    area                  \* area and point position, bereich_learnings, what the prompts got

areaVars == <<area>>

VARIABLES
    ask                   \* one Ask question: position, envelopes emitted, session entry, journal

askVars == <<ask>>

VARIABLES
    logbuf                \* the live log buffer, its lock, the threads using it

logVars == <<logbuf>>

VARIABLES
    batch                 \* one scrape_urls_batch call: position, safe_urls, results, what it returned

batchVars == <<batch>>

VARIABLES
    srch                  \* one _execute_all_searches_async call: queries, position, all_results

searchVars == <<srch>>

VARIABLES
    msgs                  \* the status messages of one run and the language they are asked in

langVars == <<msgs>>

VARIABLES
    apicfg                \* the process-wide API configuration, the sessions, the LLM requests sent

cfgVars == <<apicfg>>

VARIABLES
    par                   \* the scrape tasks of one Ask scrape phase and the envelopes emitted

parVars == <<par>>

vars == <<citeVars, rnVars, streamVars, navVars, ckptVars, busVars, pickVars, sessVars, loopVars, areaVars, askVars, logVars, batchVars, searchVars, langVars, cfgVars, parVars>>

\* the variables each part leaves alone
nonCiteVars == <<rnVars, streamVars, navVars, ckptVars, busVars, pickVars, sessVars, loopVars, areaVars, askVars, logVars, batchVars, searchVars, langVars, cfgVars, parVars>>
nonRnVars == <<citeVars, streamVars, navVars, ckptVars, busVars, pickVars, sessVars, loopVars, areaVars, askVars, logVars, batchVars, searchVars, langVars, cfgVars, parVars>>
nonStreamVars == <<citeVars, rnVars, navVars, ckptVars, busVars, pickVars, sessVars, loopVars, areaVars, askVars, logVars, batchVars, searchVars, langVars, cfgVars, parVars>>
nonNavVars == <<citeVars, rnVars, streamVars, ckptVars, busVars, pickVars, sessVars, loopVars, areaVars, askVars, logVars, batchVars, searchVars, langVars, cfgVars, parVars>>
nonCkptVars == <<citeVars, rnVars, streamVars, navVars, busVars, pickVars, sessVars, loopVars, areaVars, askVars, logVars, batchVars, searchVars, langVars, cfgVars, parVars>>
nonBusVars == <<citeVars, rnVars, streamVars, navVars, ckptVars, pickVars, sessVars, loopVars, areaVars, askVars, logVars, batchVars, searchVars, langVars, cfgVars, parVars>>
nonPickVars == <<citeVars, rnVars, streamVars, navVars, ckptVars, busVars, sessVars, loopVars, areaVars, askVars, logVars, batchVars, searchVars, langVars, cfgVars, parVars>>
nonSessVars == <<citeVars, rnVars, streamVars, navVars, ckptVars, busVars, pickVars, loopVars, areaVars, askVars, logVars, batchVars, searchVars, langVars, cfgVars, parVars>>
nonLoopVars == <<citeVars, rnVars, streamVars, navVars, ckptVars, busVars, pickVars, sessVars, areaVars, askVars, logVars, batchVars, searchVars, langVars, cfgVars, parVars>>
nonAreaVars == <<citeVars, rnVars, streamVars, navVars, ckptVars, busVars, pickVars, sessVars, loopVars, askVars, logVars, batchVars, searchVars, langVars, cfgVars, parVars>>
nonAskVars == <<citeVars, rnVars, streamVars, navVars, ckptVars, busVars, pickVars, sessVars, loopVars, areaVars, logVars, batchVars, searchVars, langVars, cfgVars, parVars>>
nonLogVars == <<citeVars, rnVars, streamVars, navVars, ckptVars, busVars, pickVars, sessVars, loopVars, areaVars, askVars, batchVars, searchVars, langVars, cfgVars, parVars>>
nonBatchVars == <<citeVars, rnVars, streamVars, navVars, ckptVars, busVars, pickVars, sessVars, loopVars, areaVars, askVars, logVars, searchVars, langVars, cfgVars, parVars>>
nonSearchVars == <<citeVars, rnVars, streamVars, navVars, ckptVars, busVars, pickVars, sessVars, loopVars, areaVars, askVars, logVars, batchVars, langVars, cfgVars, parVars>>
nonLangVars == <<citeVars, rnVars, streamVars, navVars, ckptVars, busVars, pickVars, sessVars, loopVars, areaVars, askVars, logVars, batchVars, searchVars, cfgVars, parVars>>
nonCfgVars == <<citeVars, rnVars, streamVars, navVars, ckptVars, busVars, pickVars, sessVars, loopVars, areaVars, askVars, logVars, batchVars, searchVars, langVars, parVars>>
nonParVars == <<citeVars, rnVars, streamVars, navVars, ckptVars, busVars, pickVars, sessVars, loopVars, areaVars, askVars, logVars, batchVars, searchVars, langVars, cfgVars>>

\* ------------------------------------------------------------ helpers
Max(S) == CHOOSE x \in S : \A y \in S : y <= x
Min(S) == CHOOSE x \in S : \A y \in S : x <= y

\* the empty dict
EmptyDict == [k \in {} |-> 0]

\* d[k] = v  (Python dict item assignment: inserts or overwrites)
DictPut(d, k, v) == [x \in (DOMAIN d) \cup {k} |-> IF x = k THEN v ELSE d[x]]

\* lst[i] with Python's list indexing: i >= 0 counts from the front,
\* i < 0 from the back
PyIndex(lst, i) == IF i >= 0 THEN lst[i + 1] ELSE lst[Len(lst) + i + 1]

\* A text is modelled by its citation tokens in order of occurrence: the
\* token [N] is the integer N.  A token with a negative number ("[-1]") is
\* text that the pattern \[(\d+)\] does not match.
Tokens(text) == {text[i] : i \in DOMAIN text}

\* set(int(m) for m in re.findall(r'\[(\d+)\]', text))
FindLocalNums(text) == {n \in Tokens(text) : n >= 0}

\* sorted(local_nums): position of n, counted from 0
Rank(n, S) == Cardinality({m \in S : m < n})

\* for local_num in sorted(local_nums): local_to_global[local_num] = current_num; current_num += 1
LocalToGlobal(S, start_num) == [n \in S |-> start_num + Rank(n, S)]

\* re.sub(rf'\[{local_num}\]', f'[{global_num}]', result): every token
\* [local_num] of the current result becomes [global_num]
ReSub(result, local_num, global_num) ==
    [i \in DOMAIN result |-> IF result[i] = local_num THEN global_num ELSE result[i]]

\* for local_num in sorted(local_nums, reverse=True): substitute, then
\* register the URL if local_num - 1 < len(local_urls)
RECURSIVE RenumberLoop(_, _, _, _, _)
RenumberLoop(todo, l2g, result, reg, local_urls) ==
    IF todo = {} THEN [text |-> result, registry |-> reg]
    ELSE LET local_num == Max(todo)
             global_num == l2g[local_num]
             reg2 == IF local_num - 1 < Len(local_urls)
                     THEN DictPut(reg, global_num, PyIndex(local_urls, local_num - 1))
                     ELSE reg
         IN RenumberLoop(todo \ {local_num}, l2g,
                         ReSub(result, local_num, global_num), reg2, local_urls)

\* renumber_citations returning a counter that advanced only for the cited
\* numbers that have a URL
renumber_citations_counting_urls(text, local_urls, start_num, reg) ==
    LET local_nums == FindLocalNums(text)
        r == RenumberLoop(local_nums, LocalToGlobal(local_nums, start_num),
                          text, reg, local_urls)
    IN [text |-> r.text,
        next |-> start_num + Cardinality({n \in local_nums : n - 1 < Len(local_urls)}),
        registry |-> r.registry]

\* renumber_citations(text, local_urls, start_num) with the enclosing
\* source_registry passed in and returned
renumber_citations(text, local_urls, start_num, reg) ==
    LET local_nums == FindLocalNums(text)
        r == RenumberLoop(local_nums, LocalToGlobal(local_nums, start_num),
                          text, reg, local_urls)
    IN [text |-> r.text,
        next |-> start_num + Cardinality(local_nums),
        registry |-> r.registry]

\* sorted sequence of a finite set of integers
RECURSIVE SortedSeq(_)
SortedSeq(S) == IF S = {} THEN <<>> ELSE <<Min(S)>> \o SortedSeq(S \ {Min(S)})

\* --------------------------------------------- citation registry of a run
\* Dossier texts an LLM can return: any set of local numbers [0]..[2]
DossierTexts == {SortedSeq(S) : S \in SUBSET RunLocalNums}
\* key_learnings blocks: no citation, or one citation
LearningTexts == {<<>>} \cup {<<n>> : n \in RunLocalNums}

NoPoint == [kind |-> "none", local_text |-> <<>>, local_learnings |-> <<>>,
            urls |-> <<>>, start |-> 0, text |-> <<>>, learnings |-> <<>>,
            reg_before |-> EmptyDict, reg_text |-> EmptyDict]

CiteIdle ==
    /\ source_registry = EmptyDict
    /\ source_counter = 1
    /\ point_index = 0
    /\ completed_dossiers = <<>>
    /\ accumulated_learnings = <<>>
    /\ last = NoPoint
    /\ all_contiguous = TRUE

\* research.py:815-822 (is_resume false)
CiteInit ==
    /\ source_registry = EmptyDict
    /\ source_counter = 1
    /\ point_index = 0
    /\ completed_dossiers = <<>>
    /\ accumulated_learnings = <<>>
    /\ last = NoPoint
    /\ all_contiguous = TRUE

\* research.py:1186-1218 / 1815-1830: a point whose dossier LLM call
\* succeeded.  dossier_text and key_learnings come from the LLM reply,
\* n is the number of scraped pages (keys of scraped_contents).
DossierStep(dossier_text, key_learnings, n) ==
    /\ point_index < MaxPoints
    /\ LET idx == point_index + 1
           dossier_urls == [j \in 1..n |-> <<idx, j>>]
           r1 == renumber_citations(dossier_text, dossier_urls, source_counter,
                                    source_registry)
           r2 == IF key_learnings # <<>>
                 THEN renumber_citations(key_learnings, dossier_urls,
                                         r1.next - Len(dossier_urls), r1.registry)
                 ELSE [text |-> key_learnings, next |-> r1.next,
                       registry |-> r1.registry]
       IN /\ point_index' = idx
          /\ source_counter' = r1.next
          /\ source_registry' = r2.registry
          /\ completed_dossiers' = Append(completed_dossiers,
                                          [dossier |-> r1.text, sources |-> dossier_urls])
          /\ accumulated_learnings' = IF key_learnings # <<>>
                                      THEN Append(accumulated_learnings, r2.text)
                                      ELSE accumulated_learnings
          /\ last' = [kind |-> "dossier", local_text |-> dossier_text,
                      local_learnings |-> key_learnings, urls |-> dossier_urls,
                      start |-> source_counter, text |-> r1.text,
                      learnings |-> r2.text, reg_before |-> source_registry,
                      reg_text |-> r1.registry]
          /\ all_contiguous' = (all_contiguous
                                /\ Tokens(dossier_text) = 1..Len(dossier_text)
                                /\ n >= Len(dossier_text)
                                /\ Tokens(key_learnings) \subseteq Tokens(dossier_text))
    /\ UNCHANGED nonCiteVars

\* research.py:931-942, 947-958, 973-984, 1089-1100, 1132-1143, 1173-1184:
\* a skipped point touches neither the registry nor the counter
SkipStep ==
    /\ point_index < MaxPoints
    /\ point_index' = point_index + 1
    /\ last' = [NoPoint EXCEPT !.kind = "skipped"]
    /\ UNCHANGED <<source_registry, source_counter, completed_dossiers,
                   accumulated_learnings, all_contiguous>>
    /\ UNCHANGED nonCiteVars

CiteNext ==
    \/ \E dossier_text \in DossierTexts, key_learnings \in LearningTexts, n \in UrlCounts :
          DossierStep(dossier_text, key_learnings, n)
    \/ SkipStep

\* ------------------------------------------ renumber_citations on its own
NoResult == [text |-> <<>>, next |-> 0, registry |-> EmptyDict, done |-> FALSE]

\* texts of up to two citation tokens [0]..[MaxLocal], in any order
RnTexts == {<<>>} \cup {<<a>> : a \in 0..MaxLocal}
              \cup {<<a, b>> : a \in 0..MaxLocal, b \in 0..MaxLocal}

RnIdle ==
    /\ rn_in = [text |-> <<>>, urls |-> <<>>, start |-> 1]
    /\ rn_out = NoResult

RnInit ==
    /\ \E text \in RnTexts, n \in UrlCounts, start \in 1..MaxStart :
          rn_in = [text |-> text, urls |-> [j \in 1..n |-> <<1, j>>], start |-> start]
    /\ rn_out = NoResult

\* research.py:824-853 / 1650-1664, called with an empty registry
RnCall ==
    /\ ~rn_out.done
    /\ LET r == renumber_citations(rn_in.text, rn_in.urls, rn_in.start, EmptyDict)
       IN rn_out' = [text |-> r.text, next |-> r.next, registry |-> r.registry,
                     done |-> TRUE]
    /\ UNCHANGED rn_in
    /\ UNCHANGED nonRnVars

\* ------------------------------------------------- the NDJSON generators
Env(type, point_number, skipped, skip_reason) ==
    [type |-> type, point_number |-> point_number, skipped |-> skipped,
     skip_reason |-> skip_reason]

Plain(type) == Env(type, 0, FALSE, "")
Status == Plain("status")

\* research.py:127-142: one "log" envelope per buffered WARNING/ERROR record
flush_log_buffer(logs) == [i \in 1..logs |-> Plain("log")]

\* point_complete of a skipped point (research.py:933-941 and the like)
Skipped(point_number, reason) == Env("point_complete", point_number, TRUE, reason)
\* point_complete of a point with a dossier (research.py:1223-1232, 1832-1840)
Completed(point_number) == Env("point_complete", point_number, FALSE, "")

\* what a pipeline stage can do: deliver, deliver nothing, raise
Outcomes == {"ok", "empty", "raise"}

GenIdle ==
    /\ request = [mode |-> "none"]
    /\ gen = [pc |-> "closed"]
    /\ stream = <<>>

\* ---- /research/deep (Flat mode)
DeepRequests ==
    [mode : {"deep"}, plan : FlatPlans, is_resume : BOOLEAN, corrupt : BOOLEAN]

DeepGenInit ==
    /\ request \in DeepRequests
    /\ gen = [pc |-> "start", remaining |-> 0, point_index |-> 0, dossiers |-> 0]
    /\ stream = <<>>

\* an except branch that only flushes the logs
SilentExcept(s, logs) == s \o flush_log_buffer(logs)

\* research.py:1328-1334
DeepExcept(s, logs) == s \o flush_log_buffer(logs) \o <<Plain("error")>>

Close(s) ==
    /\ stream' = s
    /\ gen' = [gen EXCEPT !.pc = "closed"]

\* research.py:800-887: load the context, open the run.
\* ContextState.from_dict raises on a malformed context_state; the first
\* save_checkpoint raises when the file cannot be written.
DeepStart(save_fails, logs) ==
    /\ request.mode = "deep" /\ gen.pc = "start"
    /\ IF request.corrupt
       THEN Close(DeepExcept(stream, logs))
       ELSE IF request.plan = 0
       THEN Close(Append(stream, Plain("error")))
       ELSE IF ~request.is_resume /\ save_fails
       THEN Close(DeepExcept(Append(stream, Status), logs))
       ELSE /\ stream' = stream \o <<Status, Plain("session_id")>>
            /\ gen' = [gen EXCEPT !.pc = "loop", !.remaining = request.plan,
                                  !.dossiers = IF request.is_resume THEN 1 ELSE 0,
                                  !.point_index = IF request.is_resume THEN 1 ELSE 0]
    /\ UNCHANGED request
    /\ UNCHANGED nonStreamVars

\* taking a point off the plan without counting it
DeepPickUncounted ==
    /\ request.mode = "deep" /\ gen.pc = "loop" /\ gen.remaining > 0
    /\ gen' = [gen EXCEPT !.pc = "think", !.remaining = @ - 1]
    /\ stream' = stream \o <<Status, Status>>
    /\ UNCHANGED request
    /\ UNCHANGED nonStreamVars

\* research.py:889-910: take the next point off the plan
DeepPick ==
    /\ request.mode = "deep" /\ gen.pc = "loop" /\ gen.remaining > 0
    /\ gen' = [gen EXCEPT !.pc = "think", !.remaining = @ - 1, !.point_index = @ + 1]
    /\ stream' = stream \o <<Status>>
                        \o (IF gen.remaining > 1 THEN <<Status>> ELSE <<>>)
                        \o <<Status>>
    /\ UNCHANGED request
    /\ UNCHANGED nonStreamVars

\* the point is given up: status, point_complete{skipped}, continue
DeepSkip(s, reason) ==
    /\ stream' = s \o <<Status, Skipped(gen.point_index, reason)>>
    /\ gen' = [gen EXCEPT !.pc = "loop"]

\* research.py:912-960: think LLM call, parse the search queries
DeepThink(outcome, queries, logs) ==
    /\ request.mode = "deep" /\ gen.pc = "think"
    /\ CASE outcome = "raise" -> Close(DeepExcept(stream, logs))
         [] outcome = "empty" -> DeepSkip(stream \o flush_log_buffer(logs), "think_failed")
         [] OTHER ->
              IF queries = 0
              THEN DeepSkip(stream \o flush_log_buffer(logs), "no_queries")
              ELSE /\ stream' = stream \o flush_log_buffer(logs) \o <<Status, Status>>
                   /\ gen' = [gen EXCEPT !.pc = "search"]
    /\ UNCHANGED request
    /\ UNCHANGED nonStreamVars

\* research.py:962-1000: run the searches
DeepSearch(outcome, logs) ==
    /\ request.mode = "deep" /\ gen.pc = "search"
    /\ CASE outcome = "raise" -> Close(DeepExcept(stream, logs))
         [] outcome = "empty" -> DeepSkip(stream, "no_results")
         [] OTHER -> /\ stream' = Append(stream, Status)
                     /\ gen' = [gen EXCEPT !.pc = "pick"]
    /\ UNCHANGED request
    /\ UNCHANGED nonStreamVars

\* research.py:1002-1113: pick URLs, retry once with new queries when fewer
\* than two were picked
DeepPickUrls(outcome, picked, retry, repicked, logs) ==
    /\ request.mode = "deep" /\ gen.pc = "pick"
    /\ LET s1 == stream \o flush_log_buffer(logs)
           first == IF outcome = "empty" THEN 0 ELSE picked
           s2 == IF first < 2
                 THEN s1 \o <<Status>> \o (IF retry # "no_queries" THEN <<Status>> ELSE <<>>)
                 ELSE s1
           selected_urls == IF first < 2 /\ retry = "picked" THEN repicked ELSE first
       IN CASE outcome = "raise" -> Close(DeepExcept(stream, logs))
            [] OTHER -> IF selected_urls = 0 THEN DeepSkip(s2, "no_urls_after_retry")
                        ELSE /\ stream' = s2 \o <<Status, Plain("sources"), Status>>
                             /\ gen' = [gen EXCEPT !.pc = "scrape"]
    /\ UNCHANGED request /\ UNCHANGED nonStreamVars

\* research.py:1115-1149: scrape the picked URLs
DeepScrape(outcome, logs) ==
    /\ request.mode = "deep" /\ gen.pc = "scrape"
    /\ CASE outcome = "raise" -> Close(DeepExcept(stream, logs))
         [] outcome = "empty" -> DeepSkip(stream, "scrape_empty")
         [] OTHER -> /\ stream' = stream \o <<Status, Status>>
                     /\ gen' = [gen EXCEPT !.pc = "dossier"]
    /\ UNCHANGED request
    /\ UNCHANGED nonStreamVars

\* research.py:1151-1236: dossier LLM call, renumbering, checkpoint,
\* point_complete.  "raise" covers the LLM call and save_checkpoint.
DeepDossier(outcome, logs) ==
    /\ request.mode = "deep" /\ gen.pc = "dossier"
    /\ CASE outcome = "raise" -> Close(DeepExcept(stream, logs))
         [] outcome = "empty" -> DeepSkip(stream \o flush_log_buffer(logs), "dossier_failed")
         [] OTHER ->
              /\ stream' = stream \o flush_log_buffer(logs)
                                  \o <<Status, Completed(gen.point_index)>>
              /\ gen' = [gen EXCEPT !.pc = "loop", !.dossiers = @ + 1]
    /\ UNCHANGED request
    /\ UNCHANGED nonStreamVars

\* research.py:1238-1326: final synthesis (with fallback) and done
DeepFinish(outcome, logs, logs2) ==
    /\ request.mode = "deep" /\ gen.pc = "loop" /\ gen.remaining = 0
    /\ LET s1 == IF gen.dossiers > 0
                 THEN stream \o <<Status, Status, Plain("synthesis_start")>>
                 ELSE stream
           s2 == IF gen.dossiers > 0
                 THEN s1 \o flush_log_buffer(logs)
                         \o (IF outcome = "empty" THEN <<Status>> ELSE <<>>)
                 ELSE s1
       IN IF gen.dossiers > 0 /\ outcome = "raise"
          THEN Close(DeepExcept(s1, logs))
          ELSE Close(s2 \o <<Status>> \o flush_log_buffer(logs2) \o <<Plain("done")>>)
    /\ UNCHANGED request
    /\ UNCHANGED nonStreamVars

DeepNext ==
    \/ \E save_fails \in BOOLEAN, logs \in LogCounts : DeepStart(save_fails, logs)
    \/ DeepPick
    \/ \E outcome \in Outcomes, queries \in 0..1, logs \in LogCounts :
          DeepThink(outcome, queries, logs)
    \/ \E outcome \in Outcomes, logs \in LogCounts : DeepSearch(outcome, logs)
    \/ \E outcome \in Outcomes, picked \in PickCounts,
          retry \in {"no_queries", "searched", "picked"},
          repicked \in PickCounts, logs \in LogCounts :
          DeepPickUrls(outcome, picked, retry, repicked, logs)
    \/ \E outcome \in Outcomes, logs \in LogCounts : DeepScrape(outcome, logs)
    \/ \E outcome \in Outcomes, logs \in LogCounts : DeepDossier(outcome, logs)
    \/ \E outcome \in Outcomes, logs \in LogCounts, logs2 \in LogCounts :
          DeepFinish(outcome, logs, logs2)

\* ---- /research/academic
AcademicRequests == [mode : {"academic"}, bereiche : AcademicPlans]

AcademicGenInit ==
    /\ request \in AcademicRequests
    /\ gen = [pc |-> "start", bereich_index |-> 0, punkt_index |-> 0,
              point_index |-> 0, dossiers |-> 0, synthesen |-> 0]
    /\ stream = <<>>

\* research.py:2026-2031
AcademicExcept(s, logs) == s \o flush_log_buffer(logs) \o <<Plain("error")>>

\* research.py:1626-1664: read the areas, open the run
AcademicStart ==
    /\ request.mode = "academic" /\ gen.pc = "start"
    /\ IF request.bereiche = <<>>
       THEN Close(Append(stream, Plain("error")))
       ELSE /\ stream' = Append(stream, Status)
            /\ gen' = [gen EXCEPT !.pc = "bereich"]
    /\ UNCHANGED request
    /\ UNCHANGED nonStreamVars

\* research.py:1667-1680: enter the next area
AcademicBereich ==
    /\ request.mode = "academic" /\ gen.pc = "bereich"
    /\ gen.bereich_index < Len(request.bereiche)
    /\ gen' = [gen EXCEPT !.pc = "punkt", !.bereich_index = @ + 1,
                          !.punkt_index = 0, !.dossiers = 0]
    /\ stream' = Append(stream, Plain("bereich_start"))
    /\ UNCHANGED request
    /\ UNCHANGED nonStreamVars

\* research.py:1683-1693: take the next point of the area
AcademicPunkt ==
    /\ request.mode = "academic" /\ gen.pc = "punkt"
    /\ gen.punkt_index < request.bereiche[gen.bereich_index]
    /\ gen' = [gen EXCEPT !.pc = "think", !.punkt_index = @ + 1, !.point_index = @ + 1]
    /\ stream' = stream \o <<Status, Status>>
    /\ UNCHANGED request
    /\ UNCHANGED nonStreamVars

\* point_complete{skipped}, continue (research.py:1706-1716, 1720-1730)
AcademicSkip(s, reason) ==
    /\ stream' = Append(s, Skipped(gen.point_index, reason))
    /\ gen' = [gen EXCEPT !.pc = "punkt"]

\* a bare continue (research.py:1738-1739, 1770-1771, 1794-1795, 1812-1813)
AcademicContinue(s) ==
    /\ stream' = s
    /\ gen' = [gen EXCEPT !.pc = "punkt"]

\* research.py:1695-1733: think LLM call, parse the search queries
AcademicThink(outcome, queries, logs) ==
    /\ request.mode = "academic" /\ gen.pc = "think"
    /\ CASE outcome = "raise" -> Close(AcademicExcept(stream, logs))
         [] outcome = "empty" -> AcademicSkip(stream \o flush_log_buffer(logs), "think_failed")
         [] OTHER ->
              IF queries = 0
              THEN AcademicSkip(stream \o flush_log_buffer(logs), "no_queries")
              ELSE /\ stream' = stream \o flush_log_buffer(logs) \o <<Status>>
                   /\ gen' = [gen EXCEPT !.pc = "search"]
    /\ UNCHANGED request
    /\ UNCHANGED nonStreamVars

\* research.py:1735-1754: run the searches
AcademicSearch(outcome, logs) ==
    /\ request.mode = "academic" /\ gen.pc = "search"
    /\ CASE outcome = "raise" -> Close(AcademicExcept(stream, logs))
         [] outcome = "empty" -> AcademicContinue(stream)
         [] OTHER -> /\ stream' = Append(stream, Status)
                     /\ gen' = [gen EXCEPT !.pc = "pick"]
    /\ UNCHANGED request
    /\ UNCHANGED nonStreamVars

\* research.py:1756-1782: pick URLs (no retry in this mode)
AcademicPickUrls(outcome, picked, logs) ==
    /\ request.mode = "academic" /\ gen.pc = "pick"
    /\ CASE outcome = "raise" -> Close(AcademicExcept(stream, logs))
         [] outcome = "empty" -> AcademicContinue(stream \o flush_log_buffer(logs))
         [] OTHER ->
              IF picked = 0
              THEN AcademicContinue(stream \o flush_log_buffer(logs))
              ELSE /\ stream' = stream \o flush_log_buffer(logs)
                                       \o <<Plain("sources"), Status>>
                   /\ gen' = [gen EXCEPT !.pc = "scrape"]
    /\ UNCHANGED request
    /\ UNCHANGED nonStreamVars

\* research.py:1784-1798: scrape the picked URLs
AcademicScrape(outcome, logs) ==
    /\ request.mode = "academic" /\ gen.pc = "scrape"
    /\ CASE outcome = "raise" -> Close(AcademicExcept(stream, logs))
         [] outcome = "empty" -> AcademicContinue(stream)
         [] OTHER -> /\ stream' = Append(stream, Status)
                     /\ gen' = [gen EXCEPT !.pc = "dossier"]
    /\ UNCHANGED request
    /\ UNCHANGED nonStreamVars

\* research.py:1800-1842: dossier LLM call, renumbering, point_complete
AcademicDossier(outcome, logs) ==
    /\ request.mode = "academic" /\ gen.pc = "dossier"
    /\ CASE outcome = "raise" -> Close(AcademicExcept(stream, logs))
         [] outcome = "empty" -> AcademicContinue(stream \o flush_log_buffer(logs))
         [] OTHER ->
              /\ stream' = stream \o flush_log_buffer(logs)
                                  \o <<Completed(gen.point_index)>>
              /\ gen' = [gen EXCEPT !.pc = "punkt", !.dossiers = @ + 1]
    /\ UNCHANGED request
    /\ UNCHANGED nonStreamVars

\* research.py:1844-1897: area synthesis (with fallback) once the area's
\* points are through; nothing is emitted for an area without dossiers
AcademicBereichEnd(outcome, logs) ==
    /\ request.mode = "academic" /\ gen.pc = "punkt"
    /\ gen.punkt_index = request.bereiche[gen.bereich_index]
    /\ IF gen.dossiers = 0
       THEN /\ stream' = stream
            /\ gen' = [gen EXCEPT !.pc = "bereich"]
       ELSE IF outcome = "raise"
       THEN Close(AcademicExcept(Append(stream, Status), logs))
       ELSE /\ stream' = stream \o <<Status>> \o flush_log_buffer(logs)
                                \o <<Plain("bereich_complete")>>
            /\ gen' = [gen EXCEPT !.pc = "bereich", !.synthesen = @ + 1]
    /\ UNCHANGED request
    /\ UNCHANGED nonStreamVars

\* research.py:1899-2024: academic conclusion and done
AcademicFinish(outcome, logs, logs2) ==
    /\ request.mode = "academic" /\ gen.pc = "bereich"
    /\ gen.bereich_index = Len(request.bereiche)
    /\ LET s1 == IF gen.synthesen > 0
                 THEN Append(stream, Plain("meta_synthesis_start"))
                 ELSE stream
           s2 == IF gen.synthesen > 0 THEN s1 \o flush_log_buffer(logs) ELSE s1
       IN IF gen.synthesen > 0 /\ outcome = "raise"
          THEN Close(AcademicExcept(s1, logs))
          ELSE Close(s2 \o <<Status>> \o flush_log_buffer(logs2) \o <<Plain("done")>>)
    /\ UNCHANGED request
    /\ UNCHANGED nonStreamVars

AcademicNext ==
    \/ AcademicStart
    \/ AcademicBereich
    \/ AcademicPunkt
    \/ \E outcome \in Outcomes, queries \in 0..1, logs \in LogCounts :
          AcademicThink(outcome, queries, logs)
    \/ \E outcome \in Outcomes, logs \in LogCounts : AcademicSearch(outcome, logs)
    \/ \E outcome \in Outcomes, picked \in PickCounts, logs \in LogCounts :
          AcademicPickUrls(outcome, picked, logs)
    \/ \E outcome \in Outcomes, logs \in LogCounts : AcademicScrape(outcome, logs)
    \/ \E outcome \in Outcomes, logs \in LogCounts : AcademicDossier(outcome, logs)
    \/ \E outcome \in Outcomes, logs \in LogCounts : AcademicBereichEnd(outcome, logs)
    \/ \E outcome \in Outcomes, logs \in LogCounts, logs2 \in LogCounts :
          AcademicFinish(outcome, logs, logs2)

\* ---- /research/run (setup pipeline)
RunRequests == [mode : {"run"}, message_empty : BOOLEAN, max_step : 1..3]

RunGenInit ==
    /\ request \in RunRequests
    /\ gen = [pc |-> "start", urls |-> 0]
    /\ stream = <<>>

\* research.py:449-454
RunExcept(s, logs) == s \o flush_log_buffer(logs) \o <<Plain("error")>>

\* a step reported context["error"]: flush the logs, error, return
\* (research.py:391-395, 411-415)
RunError(s, logs) == Close(s \o flush_log_buffer(logs) \o <<Plain("error")>>)

\* research.py:378-399: check the message, get the overview queries
RunOverview(outcome, logs) ==
    /\ request.mode = "run" /\ gen.pc = "start"
    /\ IF request.message_empty
       THEN Close(Append(stream, Plain("error")))
       ELSE CASE outcome = "raise" -> Close(RunExcept(Append(stream, Status), logs))
              [] outcome = "empty" -> RunError(Append(stream, Status), logs)
              [] OTHER -> /\ stream' = stream \o <<Status, Status>>
                          /\ gen' = [gen EXCEPT !.pc = "search"]
    /\ UNCHANGED request
    /\ UNCHANGED nonStreamVars

\* research.py:401-422: search and pick the initial URLs (max_step >= 2)
RunSearch(outcome, picked, logs) ==
    /\ request.mode = "run" /\ gen.pc = "search"
    /\ IF request.max_step < 2
       THEN /\ stream' = stream
            /\ gen' = [gen EXCEPT !.pc = "clarify"]
       ELSE CASE outcome = "raise" -> Close(RunExcept(Append(stream, Status), logs))
              [] outcome = "empty" -> RunError(Append(stream, Status), logs)
              [] OTHER ->
                   /\ stream' = stream \o <<Status, Status>>
                                   \o (IF picked > 0 THEN <<Plain("sources")>> ELSE <<>>)
                   /\ gen' = [gen EXCEPT !.pc = "clarify", !.urls = picked]
    /\ UNCHANGED request
    /\ UNCHANGED nonStreamVars

\* research.py:424-447: read the sources and clarify (max_step >= 3), done
RunClarify(outcome, logs) ==
    /\ request.mode = "run" /\ gen.pc = "clarify"
    /\ LET clarifies == request.max_step >= 3 /\ gen.urls > 0
           s1 == IF clarifies THEN stream \o <<Status, Status>> ELSE stream
       IN IF outcome = "raise"
          THEN Close(RunExcept(IF clarifies THEN Append(stream, Status) ELSE stream, logs))
          ELSE Close(s1 \o flush_log_buffer(logs) \o <<Plain("done")>>)
    /\ UNCHANGED request
    /\ UNCHANGED nonStreamVars

RunNext ==
    \/ \E outcome \in Outcomes, logs \in LogCounts : RunOverview(outcome, logs)
    \/ \E outcome \in Outcomes, picked \in PickCounts, logs \in LogCounts :
          RunSearch(outcome, picked, logs)
    \/ \E outcome \in Outcomes, logs \in LogCounts : RunClarify(outcome, logs)

StreamInit == DeepGenInit \/ AcademicGenInit \/ RunGenInit

StreamNext == DeepNext \/ AcademicNext \/ RunNext

\* --------------------------------------------------------- URL navigation
\* camoufox_scraper.py:26
MAX_URLS_PER_BATCH == 100
\* deep_question_pipeline.py:227 (all_urls[:10])
ASK_URL_LIMIT == 10
\* security.py:63
MAX_URL_LENGTH == 2048

\* security.py:28
BLOCKED_PORTS == {22, 23, 25, 3306, 5432, 6379, 27017, 11211}
\* security.py:31-38
PRIVATE_HOSTNAMES == {"localhost", "localhost.localdomain", "127.0.0.1",
                      "0.0.0.0", "::1", "[::1]"}

\* A URL is what urlparse makes of it: scheme, hostname, port (0: none given,
\* -1: a port that parsed.port rejects with ValueError, e.g. ":99999") and
\* the length of the string.
Hostnames == {"", "example.com", "localhost", "127.0.0.1", "db.internal", "10.0.0.5",
              "169.254.169.254"}
Urls == [scheme : {"", "https", "file"}, hostname : Hostnames,
         port : {-1, 0, 6379}, length : {60, MAX_URL_LENGTH + 1}]

\* hostname_lower.endswith(('.local', '.internal', '.lan', '.localhost'))
InternalTld(hostname) == hostname \in {"db.internal"}

\* ipaddress.ip_address(hostname): the flags of the address, {} for a
\* public address, "domain" when the hostname is no IP address (ValueError)
IpFlags(hostname) ==
    CASE hostname = "10.0.0.5" -> {"private"}
      [] hostname = "169.254.169.254" -> {"private", "link_local"}
      [] hostname = "127.0.0.1" -> {"private", "loopback"}
      [] hostname = "0.0.0.0" -> {"private"}
      [] hostname = "::1" -> {"private", "loopback"}
      [] OTHER -> {"domain"}

\* security.py:41-132 without the port check of lines 95-98
validate_url_any_port(url) ==
    /\ url.length > 0
    /\ url.length <= MAX_URL_LENGTH
    /\ url.scheme # ""
    /\ url.scheme \in {"http", "https"}
    /\ url.hostname # ""
    /\ url.hostname \notin PRIVATE_HOSTNAMES
    /\ ~InternalTld(url.hostname)
    /\ url.port >= 0
    /\ IpFlags(url.hostname) \cap {"private", "loopback", "link_local",
                                   "reserved", "multicast"} = {}

\* security.py:41-132 with allow_private = False.  parsed.port raises
\* ValueError for a port it rejects; the outer except returns False.
validate_url(url) ==
    /\ url.length > 0
    /\ url.length <= MAX_URL_LENGTH
    /\ url.scheme # ""
    /\ url.scheme \in {"http", "https"}
    /\ url.hostname # ""
    /\ url.hostname \notin PRIVATE_HOSTNAMES
    /\ ~InternalTld(url.hostname)
    /\ url.port >= 0
    /\ ~(url.port # 0 /\ url.port \in BLOCKED_PORTS)
    /\ IpFlags(url.hostname) \cap {"private", "loopback", "link_local",
                                   "reserved", "multicast"} = {}

\* lst[:n]
Take(lst, n) == SubSeq(lst, 1, IF Len(lst) < n THEN Len(lst) ELSE n)

\* [x for x in lst if keep(x)]
RECURSIVE FilterSafe(_)
FilterSafe(lst) ==
    IF lst = <<>> THEN <<>>
    ELSE (IF validate_url(Head(lst)) THEN <<Head(lst)>> ELSE <<>>) \o FilterSafe(Tail(lst))

\* security.py:135-149
validate_urls(urls) == FilterSafe(urls)

\* URL lists handed to a scrape call
UrlLists == {<<>>} \cup {<<a>> : a \in Urls} \cup {<<a, b>> : a \in Urls, b \in Urls}

NavIdle == nav = [caller |-> "none", urls |-> <<>>, navigated |-> <<>>]

\* a scrape call is about to be made with some URL list
NavInit == \E urls \in UrlLists : nav = [caller |-> "none", urls |-> urls, navigated |-> <<>>]

\* camoufox_scraper.py:241-357, called by get_clarification (clarify.py:147)
\* and by scrape_urls_parallel of Flat and Academic (research.py:754-756,
\* 1620-1622): truncate, validate, page.goto each safe URL
scrape_urls_batch(caller, urls) ==
    /\ nav.caller = "none" /\ urls = nav.urls
    /\ LET safe_urls == validate_urls(Take(urls, MAX_URLS_PER_BATCH))
       IN nav' = [caller |-> caller, urls |-> urls, navigated |-> safe_urls]
    /\ UNCHANGED nonNavVars

\* deep_question_pipeline.py:190-261 with 131-185, called for both scrape
\* phases of an Ask run (ask.py:484, 616): the first result URL of every
\* search, at most 10, each handed to page.goto
search_and_scrape(phase, result_urls) ==
    /\ nav.caller = "none" /\ result_urls = nav.urls
    /\ LET all_urls == Take(result_urls, ASK_URL_LIMIT)
       IN nav' = [caller |-> phase, urls |-> result_urls, navigated |-> all_urls]
    /\ UNCHANGED nonNavVars

NavNext ==
    \/ \E caller \in {"setup", "flat", "academic"} :
          scrape_urls_batch(caller, nav.urls)
    \/ \E phase \in {"ask_phase_1", "ask_phase_2"} :
          search_and_scrape(phase, nav.urls)

\* ------------------------------------------ checkpoint store and resume
\* a file: absent, opened for writing and not yet complete, or complete
\* with the payload that was dumped into it
Absent == [state |-> "absent"]
Partial == [state |-> "partial"]
Complete(payload) == [state |-> "complete", payload |-> payload]

\* the checkpoint payloads of research.py:874-879 and 1211-1218; a dossier
\* is identified by the number of its plan point
StartedCheckpoint(plan) ==
    [status |-> "started", research_plan |-> plan, completed_dossiers |-> <<>>,
     has_remaining |-> FALSE, remaining_points |-> <<>>]
DossierCheckpoint(plan, completed, remaining) ==
    [status |-> "dossier_complete", research_plan |-> plan,
     completed_dossiers |-> completed, has_remaining |-> TRUE,
     remaining_points |-> remaining]

NoPayload == [status |-> "none"]
NoResume == [called |-> FALSE, checkpoint |-> NoPayload, reply |-> "none",
             completed_dossiers |-> <<>>]

CkptIdle ==
    /\ proc = "up"
    /\ run = [pc |-> "none"]
    /\ disk = Absent
    /\ seen = "nothing"
    /\ resume = NoResume
    /\ store = [pc |-> "idle", tmp |-> Absent, file |-> Absent, bak |-> Absent]
    /\ listing = "none"

CkptInit ==
    /\ proc = "up"
    /\ \E n \in 1..MaxPoints :
          run = [pc |-> "start", research_plan |-> [i \in 1..n |-> i],
                 remaining_points |-> [i \in 1..n |-> i],
                 completed_dossiers |-> <<>>, pending |-> NoPayload]
    /\ disk = Absent
    /\ seen = "nothing"
    /\ resume = NoResume
    /\ store = [pc |-> "idle", tmp |-> Absent, file |-> Absent, bak |-> Absent]
    /\ listing = "none"

\* research.py:872-879: the initial checkpoint of a run that is not resumed
SaveStarted ==
    /\ proc = "up" /\ run.pc = "start"
    /\ disk' = Partial
    /\ run' = [run EXCEPT !.pc = "write_text",
                          !.pending = StartedCheckpoint(run.research_plan)]
    /\ UNCHANGED <<proc, seen, resume, store, listing>>
    /\ UNCHANGED nonCkptVars

\* research.py:889-895 with one of the skip paths (931-942, ...): the point
\* is taken off remaining_points and given up, no checkpoint is written
PointSkipped ==
    /\ proc = "up" /\ run.pc = "loop" /\ run.remaining_points # <<>>
    /\ run' = [run EXCEPT !.remaining_points = Tail(@)]
    /\ UNCHANGED <<proc, disk, seen, resume, store, listing>>
    /\ UNCHANGED nonCkptVars

\* research.py:889-895 and 1199-1218: the point's dossier is appended and
\* save_checkpoint starts to write the new checkpoint
SaveDossier ==
    /\ proc = "up" /\ run.pc = "loop" /\ run.remaining_points # <<>>
    /\ LET completed == Append(run.completed_dossiers, Head(run.remaining_points))
           remaining == Tail(run.remaining_points)
       IN run' = [run EXCEPT !.pc = "write_text",
                             !.completed_dossiers = completed,
                             !.remaining_points = remaining,
                             !.pending = DossierCheckpoint(run.research_plan,
                                                           completed, remaining)]
    /\ disk' = Partial
    /\ UNCHANGED <<proc, seen, resume, store, listing>>
    /\ UNCHANGED nonCkptVars

\* research.py:788, second half of write_text: the JSON text is in the file
FinishSave ==
    /\ proc = "up" /\ run.pc = "write_text"
    /\ disk' = Complete(run.pending)
    /\ run' = [run EXCEPT !.pc = "loop", !.pending = NoPayload]
    /\ UNCHANGED <<proc, seen, resume, store, listing>>
    /\ UNCHANGED nonCkptVars

\* research.py:1238-1326: the plan is through, the run ends
RunDone ==
    /\ proc = "up" /\ run.pc = "loop" /\ run.remaining_points = <<>>
    /\ run' = [run EXCEPT !.pc = "done"]
    /\ UNCHANGED <<proc, disk, seen, resume, store, listing>>
    /\ UNCHANGED nonCkptVars

\* the process dies (kill, power loss) wherever the run is; the files stay
\* as they are
Crash ==
    /\ proc = "up" /\ run.pc \in {"start", "loop", "write_text"}
    /\ proc' = "down"
    /\ run' = [run EXCEPT !.pc = "interrupted"]
    /\ UNCHANGED <<disk, seen, resume, store, listing>>
    /\ UNCHANGED nonCkptVars

Restart ==
    /\ proc = "down"
    /\ proc' = "up"
    /\ UNCHANGED <<run, disk, seen, resume, store, listing>>
    /\ UNCHANGED nonCkptVars

\* research.py:1371-1405.  A checkpoint.json that json.loads cannot parse is
\* logged and left out (inner except); the answer is the list of the
\* sessions that could be read.
list_sessions ==
    /\ proc = "up" /\ run.pc # "write_text"
    /\ listing' = CASE disk.state = "absent" -> "empty"
                    [] disk.state = "partial" -> "empty"
                    [] OTHER -> "one_session"
    /\ UNCHANGED <<proc, run, disk, seen, resume, store>>
    /\ UNCHANGED nonCkptVars

\* research.py:1408-1439.  The handler runs on the event loop of the
\* process, so never in the middle of a write_text of the same process.
get_session_checkpoint ==
    /\ proc = "up" /\ run.pc # "write_text"
    /\ seen' = CASE disk.state = "absent" -> "no_file"
                 [] disk.state = "partial" -> "truncated"
                 [] OTHER -> "snapshot"
    /\ UNCHANGED <<proc, run, disk, resume, store, listing>>
    /\ UNCHANGED nonCkptVars

\* research.py:1466-1510.  json.loads of a truncated file raises; the
\* name run_deep_research of line 1510 is defined nowhere, the call raises
\* NameError: both end the request with an error reply.
resume_session ==
    /\ proc = "up" /\ run.pc \in {"interrupted", "done"}
    /\ resume' =
         CASE disk.state = "absent" ->
                [NoResume EXCEPT !.called = TRUE, !.reply = "not_found"]
           [] disk.state = "partial" ->
                [NoResume EXCEPT !.called = TRUE, !.reply = "server_error"]
           [] OTHER ->
                IF ~disk.payload.has_remaining \/ disk.payload.remaining_points = <<>>
                THEN [NoResume EXCEPT !.called = TRUE, !.checkpoint = disk.payload,
                                      !.reply = "already_finished"]
                ELSE [NoResume EXCEPT !.called = TRUE, !.checkpoint = disk.payload,
                                      !.reply = "server_error"]
    /\ UNCHANGED <<proc, run, disk, seen, store, listing>>
    /\ UNCHANGED nonCkptVars

\* _common.py:36-45, JsonStore._atomic_write of a benchmark result file
\* (not checkpoint.json): dump into <path>.tmp
AtomicWriteTmp ==
    /\ proc = "up" /\ store.pc \in {"idle", "tmp_open"}
    /\ store' = IF store.pc = "idle"
                THEN [store EXCEPT !.pc = "tmp_open", !.tmp = Partial]
                ELSE [store EXCEPT !.pc = "tmp_done", !.tmp = Complete(NoPayload)]
    /\ UNCHANGED <<proc, run, disk, seen, resume, listing>>
    /\ UNCHANGED nonCkptVars

\* _common.py:41: os.replace(tmp_path, path)
AtomicReplace ==
    /\ proc = "up" /\ store.pc = "tmp_done"
    /\ store' = [store EXCEPT !.pc = "replaced", !.file = store.tmp, !.tmp = Absent]
    /\ UNCHANGED <<proc, run, disk, seen, resume, listing>>
    /\ UNCHANGED nonCkptVars

\* _common.py:42-44: the .bak copy, written in place
AtomicWriteBak ==
    /\ proc = "up" /\ store.pc \in {"replaced", "bak_open"}
    /\ store' = IF store.pc = "replaced"
                THEN [store EXCEPT !.pc = "bak_open", !.bak = Partial]
                ELSE [store EXCEPT !.pc = "idle", !.bak = Complete(NoPayload)]
    /\ UNCHANGED <<proc, run, disk, seen, resume, listing>>
    /\ UNCHANGED nonCkptVars

CkptNext ==
    \/ SaveStarted
    \/ PointSkipped
    \/ SaveDossier
    \/ FinishSave
    \/ RunDone
    \/ Crash
    \/ Restart
    \/ list_sessions
    \/ get_session_checkpoint
    \/ resume_session
    \/ AtomicWriteTmp
    \/ AtomicReplace
    \/ AtomicWriteBak

\* ------------------------------------------------------- Ask event bus
BusIdle ==
    /\ bus = [registered |-> FALSE, items |-> <<>>, emitted |-> <<>>]
    /\ pipe = [kind |-> "none", pc |-> "none", emits |-> 0]
    /\ sub = [pc |-> "none", pings |-> 0, timer |-> 0, received |-> <<>>]

BusInit ==
    /\ bus = [registered |-> FALSE, items |-> <<>>, emitted |-> <<>>]
    /\ \E kind \in {"ask", "research"} : pipe = [kind |-> kind, pc |-> "new", emits |-> 0]
    /\ sub = [pc |-> "new", pings |-> 0, timer |-> 0, received |-> <<>>]

\* an emit that appends to a registered queue whatever its length
emit_unbounded(b, event_type) ==
    LET id == Len(b.emitted) + 1
        outcome == IF ~b.registered THEN "no_queue" ELSE "queued"
        event == [id |-> id, type |-> event_type]
    IN [b EXCEPT !.items = IF outcome = "queued" THEN Append(@, event) ELSE @,
                 !.emitted = Append(@, [id |-> id, type |-> event_type,
                                        outcome |-> outcome])]

\* ask.py:110-132: put_nowait into the session's queue if one is registered;
\* a full queue drops the envelope.  Every call is recorded in emitted with
\* what became of the envelope.
emit_ask_event(b, event_type) ==
    LET id == Len(b.emitted) + 1
        outcome == IF ~b.registered THEN "no_queue"
                   ELSE IF Len(b.items) >= QueueMaxSize THEN "full"
                   ELSE "queued"
        event == [id |-> id, type |-> event_type]
    IN [b EXCEPT !.items = IF outcome = "queued" THEN Append(@, event) ELSE @,
                 !.emitted = Append(@, [id |-> id, type |-> event_type,
                                        outcome |-> outcome])]

\* ask.py:135-149: one "log" envelope per buffered WARNING/ERROR record
RECURSIVE emit_ask_log_buffer(_, _)
emit_ask_log_buffer(b, logs) ==
    IF logs = 0 THEN b ELSE emit_ask_log_buffer(emit_ask_event(b, "log"), logs - 1)

\* ask.py:259-260, 166-167: create the queue if the session has none
EnsureQueue(b) == IF b.registered THEN b ELSE [b EXCEPT !.registered = TRUE, !.items = <<>>]

\* ask.py:193-196: del _ask_event_queues[session_id]
DeleteQueue(b) == [b EXCEPT !.registered = FALSE, !.items = <<>>]

\* ask.py:257-310: POST /ask/start with a valid request: queue, "starting",
\* buffered logs, pipeline task spawned
ask_start(logs) ==
    /\ pipe.kind = "ask" /\ pipe.pc = "new"
    /\ bus' = emit_ask_log_buffer(emit_ask_event(EnsureQueue(bus), "starting"), logs)
    /\ pipe' = [pipe EXCEPT !.pc = "running"]
    /\ UNCHANGED sub
    /\ UNCHANGED nonBusVars

\* ask.py:263-280: POST /ask/start with an empty question or no API key:
\* queue, "error", no pipeline
ask_start_rejected ==
    /\ pipe.kind = "ask" /\ pipe.pc = "new"
    /\ bus' = emit_ask_event(EnsureQueue(bus), "error")
    /\ pipe' = [pipe EXCEPT !.pc = "ended"]
    /\ UNCHANGED sub
    /\ UNCHANGED nonBusVars

\* ask.py:349-677: one stage of the pipeline: buffered logs, then the
\* stage's envelope
PipelineStage(logs) ==
    /\ pipe.kind = "ask" /\ pipe.pc = "running" /\ pipe.emits < MaxEmits
    /\ bus' = emit_ask_event(emit_ask_log_buffer(bus, logs), "stage_content")
    /\ pipe' = [pipe EXCEPT !.emits = @ + 1]
    /\ UNCHANGED sub
    /\ UNCHANGED nonBusVars

\* ask.py:679-696: "done", then the buffered logs
PipelineComplete(logs) ==
    /\ pipe.kind = "ask" /\ pipe.pc = "running"
    /\ bus' = emit_ask_log_buffer(emit_ask_event(bus, "done"), logs)
    /\ pipe' = [pipe EXCEPT !.pc = "ended"]
    /\ UNCHANGED sub
    /\ UNCHANGED nonBusVars

\* ask.py:698-708: a stage raised: buffered logs, "error", "done"
PipelineFail(logs) ==
    /\ pipe.kind = "ask" /\ pipe.pc = "running"
    /\ bus' = emit_ask_event(emit_ask_event(emit_ask_log_buffer(bus, logs), "error"), "done")
    /\ pipe' = [pipe EXCEPT !.pc = "ended"]
    /\ UNCHANGED sub
    /\ UNCHANGED nonBusVars

\* research.py:149-166: the same for the sessions of /research/events
emit_event(b, event_type) ==
    LET id == Len(b.emitted) + 1
        outcome == IF ~b.registered THEN "no_queue"
                   ELSE IF Len(b.items) >= QueueMaxSize THEN "full"
                   ELSE "queued"
        event == [id |-> id, type |-> event_type]
    IN [b EXCEPT !.items = IF outcome = "queued" THEN Append(@, event) ELSE @,
                 !.emitted = Append(@, [id |-> id, type |-> event_type,
                                        outcome |-> outcome])]

\* research.py:516-532: POST /research/plan with a session id: step_start,
\* step_progress, then the plan LLM call
research_plan_begin ==
    /\ pipe.kind = "research" /\ pipe.pc = "new"
    /\ bus' = emit_event(emit_event(bus, "step_start"), "step_progress")
    /\ pipe' = [pipe EXCEPT !.pc = "running"]
    /\ UNCHANGED sub
    /\ UNCHANGED nonBusVars

\* research.py:534-578: the plan call returned: "error" and return, or
\* step_done and "done"
research_plan_end(outcome) ==
    /\ pipe.kind = "research" /\ pipe.pc = "running"
    /\ bus' = IF outcome = "empty"
              THEN emit_event(bus, "error")
              ELSE emit_event(emit_event(bus, "step_done"), "done")
    /\ pipe' = [pipe EXCEPT !.pc = "ended"]
    /\ UNCHANGED sub
    /\ UNCHANGED nonBusVars

\* ask.py:152-173 and research.py:169-192: GET /ask/events/{session_id},
\* GET /research/events/{session_id}: queue if none, "connected"
Subscribe ==
    /\ sub.pc = "new"
    /\ bus' = EnsureQueue(bus)
    /\ sub' = [sub EXCEPT !.pc = "listening",
                          !.received = Append(@, [id |-> 0, type |-> "connected"])]
    /\ UNCHANGED pipe
    /\ UNCHANGED nonBusVars

\* ask.py:175-187, 193-196 and research.py:193-205, 211-214: take the next envelope off the queue and send
\* it; on "done" leave the loop and delete the queue
Deliver ==
    /\ sub.pc = "listening" /\ bus.registered /\ bus.items # <<>>
    /\ LET event == Head(bus.items)
       IN /\ sub' = [sub EXCEPT !.received = Append(@, event),
                                !.pc = IF event.type = "done" THEN "ended" ELSE @]
          /\ bus' = IF event.type = "done"
                    THEN DeleteQueue(bus)
                    ELSE [bus EXCEPT !.items = Tail(@)]
    /\ UNCHANGED pipe
    /\ UNCHANGED nonBusVars

\* ask.py:189-191, research.py:207-209: nothing arrived for 30 s: keep-alive
\* ping, and the next wait_for starts (sub.timer: the parity of the timeouts
\* so far).  The loop never ends by itself; sub.received records the first
\* MaxPings pings only.
Ping ==
    /\ sub.pc = "listening" /\ bus.registered /\ bus.items = <<>>
    /\ sub' = [sub EXCEPT !.pings = IF @ < MaxPings THEN @ + 1 ELSE @,
                          !.timer = 1 - @,
                          !.received = IF sub.pings < MaxPings
                                       THEN Append(@, [id |-> 0, type |-> "ping"])
                                       ELSE @]
    /\ UNCHANGED <<bus, pipe>>
    /\ UNCHANGED nonBusVars

\* ask.py:193-196: the client closes the connection: the generator is
\* closed, its finally block deletes the queue
Disconnect ==
    /\ sub.pc = "listening"
    /\ sub' = [sub EXCEPT !.pc = "gone"]
    /\ bus' = DeleteQueue(bus)
    /\ UNCHANGED pipe
    /\ UNCHANGED nonBusVars

BusNext ==
    \/ \E logs \in LogCounts : ask_start(logs)
    \/ ask_start_rejected
    \/ research_plan_begin
    \/ \E outcome \in {"ok", "empty"} : research_plan_end(outcome)
    \/ \E logs \in LogCounts : PipelineStage(logs)
    \/ \E logs \in LogCounts : PipelineComplete(logs)
    \/ \E logs \in LogCounts : PipelineFail(logs)
    \/ Subscribe
    \/ Deliver
    \/ Ping
    \/ Disconnect

\* ------------------------------------------------- URL pick of one point
\* pick_urls.py:186 (urls[:20])
PICK_URL_LIMIT == 20

\* the URLs an LLM reply may name on its "url N: ..." lines
PickUrls == {u \in Urls : /\ u.hostname \in {"example.com", "127.0.0.1"}
                          /\ u.scheme # ""
                          /\ u.port >= 0
                          /\ u.length = 60}

\* call_llm returns None (given = FALSE) or a text; the text is modelled by
\* the URLs of its "url" lines, in order
NoReply == [given |-> FALSE, urls |-> <<>>]
PickReplies == {NoReply} \cup
    [given : {TRUE},
     urls : {<<>>} \cup {<<a>> : a \in PickUrls} \cup {<<a, b>> : a \in PickUrls, b \in PickUrls}]

\* pick_urls.py:151-186 without the SSRF validation of line 183
RECURSIVE parse_pick_urls_unvalidated(_)
parse_pick_urls_unvalidated(response) ==
    IF response = <<>> THEN <<>>
    ELSE Take((IF Head(response).length <= MAX_URL_LENGTH
               THEN <<Head(response)>> ELSE <<>>)
              \o parse_pick_urls_unvalidated(Tail(response)), PICK_URL_LIMIT)

\* pick_urls.py:151-186: keep the URLs that are not too long, start with
\* "http" and pass validate_url; at most 20
RECURSIVE parse_pick_urls_response(_)
parse_pick_urls_response(response) ==
    IF response = <<>> THEN <<>>
    ELSE Take((IF /\ Head(response).length <= MAX_URL_LENGTH
                  /\ Head(response).scheme \in {"http", "https"}
                  /\ validate_url(Head(response))
               THEN <<Head(response)>> ELSE <<>>)
              \o parse_pick_urls_response(Tail(response)), PICK_URL_LIMIT)

PickIdle == pick = [pc |-> "none", first_reply |-> NoReply, retry |-> "none",
                    second_reply |-> NoReply, selected_urls |-> <<>>,
                    retries |-> 0, skip_reason |-> "", scraped |-> <<>>]

\* research.py:1013-1018: the pick_urls LLM call is about to return
PickInit == \E reply \in PickReplies :
    pick = [pc |-> "pick", first_reply |-> reply, retry |-> "none",
            second_reply |-> NoReply, selected_urls |-> <<>>,
            retries |-> 0, skip_reason |-> "", scraped |-> <<>>]

\* research.py:1025-1029: parse the first reply, test len(selected_urls) < 2
FirstPick ==
    /\ pick.pc = "pick"
    /\ LET selected_urls == IF pick.first_reply.given
                            THEN parse_pick_urls_response(pick.first_reply.urls)
                            ELSE <<>>
       IN pick' = [pick EXCEPT !.selected_urls = selected_urls,
                               !.pc = IF Len(selected_urls) < 2 THEN "retry" ELSE "decide"]
    /\ UNCHANGED nonPickVars

\* research.py:1030-1087: the reformulation retry.  outcome: no_response (the
\* reformulation call returned nothing), no_queries, no_results, picked (the
\* second pick_urls call was made and returned reply)
RetryPick(outcome, reply) ==
    /\ pick.pc = "retry"
    /\ outcome # "picked" => reply = NoReply
    /\ pick' = [pick EXCEPT
                  !.retries = @ + 1,
                  !.retry = outcome,
                  !.second_reply = reply,
                  !.selected_urls = IF outcome = "picked" /\ reply.given
                                    THEN parse_pick_urls_response(reply.urls)
                                    ELSE @,
                  !.pc = "decide"]
    /\ UNCHANGED nonPickVars

\* research.py:1089-1111: skip the point when nothing is selected
DecidePick ==
    /\ pick.pc = "decide"
    /\ pick' = IF pick.selected_urls = <<>>
               THEN [pick EXCEPT !.pc = "skipped", !.skip_reason = "no_urls_after_retry"]
               ELSE [pick EXCEPT !.pc = "scrape"]
    /\ UNCHANGED nonPickVars

\* research.py:1113-1118 with 754-756 and camoufox_scraper.py:241-357
ScrapePicked ==
    /\ pick.pc = "scrape"
    /\ pick' = [pick EXCEPT
                  !.scraped = validate_urls(Take(pick.selected_urls, MAX_URLS_PER_BATCH)),
                  !.pc = "scraped"]
    /\ UNCHANGED nonPickVars

PickNext ==
    \/ FirstPick
    \/ \E outcome \in {"no_response", "no_queries", "no_results", "picked"},
          reply \in PickReplies : RetryPick(outcome, reply)
    \/ DecidePick
    \/ ScrapePicked

\* ------------------------------------- sessions of concurrent Flat runs
\* the /research/deep requests that are served at the same time
RunIds == {1, 2}
Queries == {"q1", "q2"}
\* research plans: the points 1..n in plan order
SessionPlans == {[i \in 1..n |-> i] : n \in 1..3}

\* research.py:773-776: sha1 of user_query + "|||" + "|||".join(plan), first
\* 12 hex digits.  The digest is a function of the content; it is modelled
\* by the content itself (no two modelled contents collide).
get_session_id(plan, user_query) == <<user_query>> \o plan

\* research.py:778-789: <base>/<session_id>/checkpoint.json gets the payload.
\* by and origin are not in the file: the run that wrote and the plan the
\* session was created with.
save_checkpoint(fs, session_id, data, by) ==
    DictPut(fs, session_id,
            [payload |-> data,
             writers |-> (IF session_id \in DOMAIN fs THEN fs[session_id].writers ELSE {})
                         \cup {by},
             origin |-> IF session_id \in DOMAIN fs THEN fs[session_id].origin
                        ELSE data.research_plan])

IdleRun == [pc |-> "idle", user_query |-> "", is_resume |-> FALSE,
            session_id |-> <<>>, research_plan |-> <<>>,
            remaining_points |-> <<>>, completed_dossiers |-> <<>>,
            resumed_with |-> <<>>, point_index |-> 0, processed |-> <<>>]

SessIdle ==
    /\ runs = [r \in RunIds |-> IdleRun]
    /\ files = EmptyDict

SessInit == SessIdle

\* research.py:800-887, is_resume = False: the session id is derived from
\* query and plan and the "started" checkpoint is written
FreshStart(r, user_query, research_plan) ==
    /\ runs[r].pc = "idle"
    /\ LET session_id == get_session_id(research_plan, user_query)
       IN /\ files' = save_checkpoint(files, session_id,
                                      StartedCheckpoint(research_plan), r)
          /\ runs' = [runs EXCEPT ![r] =
                        [IdleRun EXCEPT !.pc = "loop",
                                        !.user_query = user_query,
                                        !.session_id = session_id,
                                        !.research_plan = research_plan,
                                        !.remaining_points = research_plan]]
    /\ UNCHANGED nonSessVars

\* research.py:800-887, is_resume = True, for the request that
\* resume_session builds from the checkpoint of session_id (1481-1508):
\* research_plan is the checkpoint's remaining_points, no checkpoint is
\* written at the start, point_index starts at len(completed_dossiers)
ResumedStart(r, session_id) ==
    /\ runs[r].pc = "idle"
    /\ session_id \in DOMAIN files
    /\ files[session_id].payload.has_remaining
    /\ files[session_id].payload.remaining_points # <<>>
    /\ LET checkpoint == files[session_id].payload
       IN runs' = [runs EXCEPT ![r] =
                     [IdleRun EXCEPT !.pc = "loop",
                                     !.user_query = Head(session_id),
                                     !.is_resume = TRUE,
                                     !.session_id = session_id,
                                     !.research_plan = checkpoint.remaining_points,
                                     !.remaining_points = checkpoint.remaining_points,
                                     !.completed_dossiers = checkpoint.completed_dossiers,
                                     !.resumed_with = checkpoint.completed_dossiers,
                                     !.point_index = Len(checkpoint.completed_dossiers)]]
    /\ UNCHANGED files
    /\ UNCHANGED nonSessVars

\* research.py:889-893 with a skip path (931-942, ..., 1173-1184): the point
\* is popped and counted, nothing is saved
SessPointSkipped(r) ==
    /\ runs[r].pc = "loop" /\ runs[r].remaining_points # <<>>
    /\ runs' = [runs EXCEPT ![r].point_index = @ + 1,
                            ![r].remaining_points = Tail(@),
                            ![r].processed = Append(@, [point |-> Head(runs[r].remaining_points),
                                                        number |-> runs[r].point_index + 1])]
    /\ UNCHANGED files
    /\ UNCHANGED nonSessVars

\* research.py:889-893 and 1199-1218: the dossier is appended and the
\* checkpoint is saved under the run's session id
SessPointDossier(r) ==
    /\ runs[r].pc = "loop" /\ runs[r].remaining_points # <<>>
    /\ LET current_point == Head(runs[r].remaining_points)
           remaining == Tail(runs[r].remaining_points)
           completed == Append(runs[r].completed_dossiers, current_point)
       IN /\ runs' = [runs EXCEPT ![r].point_index = @ + 1,
                                  ![r].remaining_points = remaining,
                                  ![r].completed_dossiers = completed,
                                  ![r].processed = Append(@, [point |-> current_point,
                                                              number |-> runs[r].point_index + 1])]
          /\ files' = save_checkpoint(files, runs[r].session_id,
                                      DossierCheckpoint(runs[r].research_plan,
                                                        completed, remaining), r)
    /\ UNCHANGED nonSessVars

\* research.py:1238-1326: final synthesis and done; nothing is saved
SessRunDone(r) ==
    /\ runs[r].pc = "loop" /\ runs[r].remaining_points = <<>>
    /\ runs' = [runs EXCEPT ![r].pc = "done"]
    /\ UNCHANGED files
    /\ UNCHANGED nonSessVars

\* research.py:1328-1334: an exception ends the run with the error
\* envelope; nothing is saved
SessRunError(r) ==
    /\ runs[r].pc = "loop"
    /\ runs' = [runs EXCEPT ![r].pc = "error"]
    /\ UNCHANGED files
    /\ UNCHANGED nonSessVars

\* research.py:1336-1339: the run is the body of the async generator that
\* StreamingResponse iterates.  When the client goes away the response stops
\* iterating it: the generator is cancelled at the yield or await it is
\* suspended in (CancelledError is no Exception, the except branch of
\* 1328-1334 does not run) and takes no further step.
SessClientDisconnect(r) ==
    /\ runs[r].pc = "loop"
    /\ runs' = [runs EXCEPT ![r].pc = "cancelled"]
    /\ UNCHANGED files
    /\ UNCHANGED nonSessVars

SessNext ==
    \/ \E r \in RunIds, user_query \in Queries, research_plan \in SessionPlans :
          FreshStart(r, user_query, research_plan)
    \/ \E r \in RunIds, session_id \in DOMAIN files : ResumedStart(r, session_id)
    \/ \E r \in RunIds : SessPointSkipped(r)
    \/ \E r \in RunIds : SessPointDossier(r)
    \/ \E r \in RunIds : SessRunDone(r)
    \/ \E r \in RunIds : SessRunError(r)
    \/ \E r \in RunIds : SessClientDisconnect(r)

\* ------------------------------- event loop during the final LLM call
\* The generator, the SSE ping timers and the handlers of other sessions are
\* tasks of one asyncio event loop.  call_llm is synchronous
\* (research.py:719): called directly it keeps the loop's thread until it
\* returns; through asyncio.to_thread it runs in a worker thread and the
\* generator is suspended.
LoopIdle ==
    loop = [mode |-> "none", pc |-> "none", blocked |-> FALSE, worker |-> "idle",
            stream |-> <<>>, calls |-> 0, served |-> 0, served_in_call |-> 0]

LoopInit ==
    \E mode \in {"deep", "academic"} :
        loop = [mode |-> mode, pc |-> "points", blocked |-> FALSE, worker |-> "idle",
                stream |-> <<>>, calls |-> 0, served |-> 0, served_in_call |-> 0]

\* research.py:1161 / 1807: the dossier call of a point, made on the loop
PointCallBegin ==
    /\ loop.pc = "points" /\ loop.calls < MaxSyncCalls
    /\ loop' = [loop EXCEPT !.pc = "in_point_call", !.blocked = TRUE]
    /\ UNCHANGED nonLoopVars

\* research.py:1161-1232 / 1807-1842: the call returns, point_complete
PointCallEnd ==
    /\ loop.pc = "in_point_call"
    /\ loop' = [loop EXCEPT !.pc = "points", !.blocked = FALSE, !.calls = @ + 1,
                            !.stream = Append(@, "point_complete")]
    /\ UNCHANGED nonLoopVars

\* research.py:1239-1264 / 1900-1908: with at least one dossier the
\* synthesis_start (Flat) or meta_synthesis_start (Academic) envelope is
\* yielded and the generator sleeps
SynthesisStart ==
    /\ loop.pc = "points" /\ loop.calls > 0
    /\ loop' = [loop EXCEPT
                  !.pc = "sleep",
                  !.stream = Append(@, IF loop.mode = "deep" THEN "synthesis_start"
                                       ELSE "meta_synthesis_start")]
    /\ UNCHANGED nonLoopVars

\* the final call made directly on the loop, as the per-point calls are
SynthesisInline ==
    /\ loop.pc = "sleep"
    /\ loop' = [loop EXCEPT !.pc = "await_thread", !.worker = "running",
                            !.blocked = TRUE]
    /\ UNCHANGED nonLoopVars

\* research.py:1270-1277 / 1921-1928: await asyncio.to_thread(call_llm, ...)
SynthesisOffload ==
    /\ loop.pc = "sleep"
    /\ loop' = [loop EXCEPT !.pc = "await_thread", !.worker = "running"]
    /\ UNCHANGED nonLoopVars

\* call_llm returns in its thread
WorkerReturns ==
    /\ loop.worker = "running"
    /\ loop' = [loop EXCEPT !.worker = "returned", !.blocked = FALSE]
    /\ UNCHANGED nonLoopVars

\* research.py:1278-1326 / 1929-2024: the generator goes on to done
SynthesisResume ==
    /\ loop.pc = "await_thread" /\ loop.worker = "returned"
    /\ loop' = [loop EXCEPT !.pc = "closed", !.stream = Append(@, "done")]
    /\ UNCHANGED nonLoopVars

\* research.py:195-201: another task of the loop gets a turn (an SSE ping,
\* an event of another session); only while the loop's thread is free
ServeOtherTask ==
    /\ ~loop.blocked /\ loop.served < MaxServed
    /\ loop' = [loop EXCEPT !.served = @ + 1,
                            !.served_in_call =
                                IF loop.worker = "running" THEN @ + 1 ELSE @]
    /\ UNCHANGED nonLoopVars

LoopNext ==
    \/ PointCallBegin
    \/ PointCallEnd
    \/ SynthesisStart
    \/ SynthesisOffload
    \/ WorkerReturns
    \/ SynthesisResume
    \/ ServeOtherTask

\* ---------------------------- Academic mode: learnings of one area
\* areas of an Academic plan: points per area
AreaPlans == {<<1>>, <<3>>, <<2, 2>>, <<1, 3>>}

\* a key_learnings text is identified by the point it came from
Learning(bereich, punkt) == [bereich |-> bereich, punkt |-> punkt]

AreaIdle ==
    area = [pc |-> "none", bereiche |-> <<>>, bereich_index |-> 0, punkt_index |-> 0,
            bereich_learnings |-> <<>>, think_learnings |-> <<>>,
            pick_learnings |-> <<>>, completed |-> {}]

\* research.py:1644-1648: the run is open, no area entered yet
AreaInit ==
    \E bereiche \in AreaPlans :
        area = [pc |-> "bereich", bereiche |-> bereiche, bereich_index |-> 0,
                punkt_index |-> 0, bereich_learnings |-> <<>>,
                think_learnings |-> <<>>, pick_learnings |-> <<>>, completed |-> {}]

\* the area loop without line 1678: the learnings list is carried over
EnterBereichKeepLearnings ==
    /\ area.pc = "bereich" /\ area.bereich_index < Len(area.bereiche)
    /\ area' = [area EXCEPT !.pc = "punkt", !.bereich_index = @ + 1,
                            !.punkt_index = 0]
    /\ UNCHANGED nonAreaVars

\* research.py:1667-1680: enter the next area, bereich_learnings = []
EnterBereich ==
    /\ area.pc = "bereich" /\ area.bereich_index < Len(area.bereiche)
    /\ area' = [area EXCEPT !.pc = "punkt", !.bereich_index = @ + 1,
                            !.punkt_index = 0, !.bereich_learnings = <<>>]
    /\ UNCHANGED nonAreaVars

\* research.py:1683-1699: next point of the area; build_think_prompt gets
\* previous_learnings = bereich_learnings (None when empty)
ThinkPrompt ==
    /\ area.pc = "punkt"
    /\ area.punkt_index < area.bereiche[area.bereich_index]
    /\ area' = [area EXCEPT !.pc = "think", !.punkt_index = @ + 1,
                            !.think_learnings = area.bereich_learnings,
                            !.pick_learnings = <<>>]
    /\ UNCHANGED nonAreaVars

\* research.py:1756-1762: build_pick_urls_prompt gets bereich_learnings
PickPrompt ==
    /\ area.pc = "think"
    /\ area' = [area EXCEPT !.pc = "pick", !.pick_learnings = area.bereich_learnings]
    /\ UNCHANGED nonAreaVars

\* research.py:1706-1716, 1720-1730, 1738-1739, 1770-1771, 1794-1795,
\* 1812-1813: the point is given up (continue), nothing is appended
PointGivenUp ==
    /\ area.pc \in {"think", "pick"}
    /\ area' = [area EXCEPT !.pc = "punkt"]
    /\ UNCHANGED nonAreaVars

\* research.py:1815-1830: the dossier is parsed; its key_learnings, when it
\* has any, is appended to bereich_learnings
PointCompleted(has_learnings) ==
    /\ area.pc = "pick"
    /\ area' = [area EXCEPT
                  !.pc = "punkt",
                  !.completed = @ \cup {Learning(area.bereich_index, area.punkt_index)},
                  !.bereich_learnings =
                      IF has_learnings
                      THEN Append(@, Learning(area.bereich_index, area.punkt_index))
                      ELSE @]
    /\ UNCHANGED nonAreaVars

\* research.py:1844-1897: the area's points are through
LeaveBereich ==
    /\ area.pc = "punkt"
    /\ area.punkt_index = area.bereiche[area.bereich_index]
    /\ area' = [area EXCEPT !.pc = "bereich"]
    /\ UNCHANGED nonAreaVars

AreaNext ==
    \/ EnterBereich
    \/ ThinkPrompt
    \/ PickPrompt
    \/ PointGivenUp
    \/ \E has_learnings \in BOOLEAN : PointCompleted(has_learnings)
    \/ LeaveBereich

\* ------------------------------------------- stages of one Ask pipeline
\* _run_deep_question_pipeline (ask.py:331-708) is one coroutine; each action
\* below is the code between two of its awaits.  ask.emitted is the sequence
\* of emit_ask_event calls of the session, ask.journal tells whether
\* deep_question_{session_id}.json has been written.
AskOrder == <<"C1", "C2", "C3", "S1", "C4", "C5", "S2", "C6">>

AskPhase(step) == IF AskOrder[step] = "S1" THEN 1 ELSE 2

AskEnv(type, stage, phase, done, total) ==
    [type |-> type, stage |-> stage, phase |-> phase, done |-> done, total |-> total]

\* the "log" envelopes of one emit_ask_log_buffer call (ask.py:135-149)
AskLogs(logs) == [i \in 1..logs |-> AskEnv("log", "", 0, 0, 0)]

AskIdle ==
    ask = [kind |-> "none", pc |-> "none", step |-> 0, emitted |-> <<>>,
           registered |-> FALSE, completed |-> FALSE, journal |-> FALSE,
           total |-> 0, scraped |-> 0]

\* a question put to POST /ask/start, or to DeepQuestionPipeline.run()
AskInit ==
    \E kind \in {"session", "cli"} :
        ask = [kind |-> kind, pc |-> "new", step |-> 0, emitted |-> <<>>,
               registered |-> FALSE, completed |-> FALSE, journal |-> FALSE,
               total |-> 0, scraped |-> 0]

\* ask.py:263-280: empty question or no API key: "error", no session entry
AskStartRejected ==
    /\ ask.kind = "session" /\ ask.pc = "new"
    /\ ask' = [ask EXCEPT !.pc = "rejected",
                          !.emitted = Append(@, AskEnv("error", "", 0, 0, 0))]
    /\ UNCHANGED nonAskVars

\* ask.py:282-310, 341-349: session entry with completed=False, "starting",
\* buffered logs, the task is spawned and constructs the pipeline
AskStart(logs, more_logs) ==
    /\ ask.kind = "session" /\ ask.pc = "new"
    /\ ask' = [ask EXCEPT !.pc = "stage", !.step = 1,
                          !.registered = TRUE, !.completed = FALSE,
                          !.emitted = Append(@, AskEnv("starting", "", 0, 0, 0))
                                        \o AskLogs(logs) \o AskLogs(more_logs)]
    /\ UNCHANGED nonAskVars

\* ask.py:351-378 and the same for C2..C6: stage_start, then the LLM call is
\* handed to a worker thread
StageBegin ==
    /\ ask.pc = "stage" /\ AskOrder[ask.step] \notin {"S1", "S2"}
    /\ ask' = [ask EXCEPT !.pc = "llm_call",
                          !.emitted = Append(@, AskEnv("stage_start", AskOrder[ask.step], 0, 0, 0))]
    /\ UNCHANGED nonAskVars

\* ask.py:378-385 and the same for C2..C6: the call returned: buffered logs,
\* stage_content
StageCallReturns(logs) ==
    /\ ask.pc = "llm_call"
    /\ ask' = [ask EXCEPT !.pc = IF ask.step = Len(AskOrder) THEN "complete" ELSE "stage",
                          !.step = IF ask.step = Len(AskOrder) THEN @ ELSE @ + 1,
                          !.emitted = @ \o AskLogs(logs)
                                        \o <<AskEnv("stage_content", AskOrder[ask.step], 0, 0, 0)>>]
    /\ UNCHANGED nonAskVars

\* deep_question_pipeline.py:78-79 and ask.py:698-708: the call raised:
\* buffered logs, "error", "done"; the session entry is left as it is
StageCallRaises(logs) ==
    /\ ask.pc = "llm_call"
    /\ ask' = [ask EXCEPT !.pc = "failed",
                          !.emitted = @ \o AskLogs(logs)
                                        \o <<AskEnv("error", "", 0, 0, 0),
                                             AskEnv("done", "", 0, 0, 0)>>]
    /\ UNCHANGED nonAskVars

\* ask.py:473-489, deep_question_pipeline.py:206-254: scrape_start, the
\* searches, one scrape task per URL found
ScrapeBegin(urls) ==
    /\ ask.pc = "stage" /\ AskOrder[ask.step] \in {"S1", "S2"}
    /\ ask' = [ask EXCEPT !.pc = "scraping", !.total = urls, !.scraped = 0,
                          !.emitted = Append(@, AskEnv("scrape_start", "", AskPhase(ask.step), 0, 0))]
    /\ UNCHANGED nonAskVars

\* deep_question_pipeline.py:242-248: a scrape task finished: completed += 1,
\* progress_callback(completed, total)
ScrapeOne ==
    /\ ask.pc = "scraping" /\ ask.scraped < ask.total
    /\ ask' = [ask EXCEPT !.scraped = @ + 1,
                          !.emitted = Append(@, AskEnv("scrape_progress", "", AskPhase(ask.step),
                                                       ask.scraped + 1, ask.total))]
    /\ UNCHANGED nonAskVars

\* a search_and_scrape that returns as soon as one task has finished
ScrapeEndFirstCompleted(logs) ==
    /\ ask.pc = "scraping" /\ (ask.scraped >= 1 \/ ask.total = 0)
    /\ ask' = [ask EXCEPT !.pc = "stage", !.step = @ + 1,
                          !.emitted = @ \o AskLogs(logs)
                                        \o <<AskEnv("scrape_done", "", AskPhase(ask.step), 0, ask.total)>>]
    /\ UNCHANGED nonAskVars

\* deep_question_pipeline.py:254-276, ask.py:490-499: gather returned when
\* every task had finished (at once when no URL was found): buffered logs,
\* scrape_done with total = len(results)
ScrapeEnd(logs) ==
    /\ ask.pc = "scraping" /\ ask.scraped = ask.total
    /\ ask' = [ask EXCEPT !.pc = "stage", !.step = @ + 1,
                          !.emitted = @ \o AskLogs(logs)
                                        \o <<AskEnv("scrape_done", "", AskPhase(ask.step), 0, ask.total)>>]
    /\ UNCHANGED nonAskVars

\* ask.py:677-696: completed = True on the session entry, "done", buffered
\* logs; nothing is written to disk
AskComplete(logs) ==
    /\ ask.pc = "complete"
    /\ ask' = [ask EXCEPT !.pc = "done",
                          !.completed = IF ask.registered THEN TRUE ELSE @,
                          !.emitted = Append(@, AskEnv("done", "", 0, 0, 0)) \o AskLogs(logs)]
    /\ UNCHANGED nonAskVars

\* deep_question_pipeline.py:339-630: DeepQuestionPipeline.run(), the
\* synchronous pipeline of the command line: all stages, then
\* _save_flow_log writes deep_question_{session_id}.json; a stage that
\* raises leaves run() before the file is written
DeepQuestionRun(outcome) ==
    /\ ask.kind = "cli" /\ ask.pc = "new"
    /\ ask' = [ask EXCEPT !.pc = IF outcome = "ok" THEN "done" ELSE "failed",
                          !.journal = (outcome = "ok")]
    /\ UNCHANGED nonAskVars

AskNext ==
    \/ AskStartRejected
    \/ \E logs \in LogCounts, more_logs \in LogCounts : AskStart(logs, more_logs)
    \/ StageBegin
    \/ \E logs \in LogCounts : StageCallReturns(logs)
    \/ \E logs \in LogCounts : StageCallRaises(logs)
    \/ \E urls \in 0..MaxScrapeUrls : ScrapeBegin(urls)
    \/ ScrapeOne
    \/ \E logs \in LogCounts : ScrapeEnd(logs)
    \/ \E logs \in LogCounts : AskComplete(logs)
    \/ \E outcome \in {"ok", "raised"} : DeepQuestionRun(outcome)

\* ---------------------------------------------------- live log buffer
\* log_config.py:36-82: _log_buffer = deque(maxlen=100) under
\* _log_buffer_lock.  Logging threads run LiveLogHandler.emit, the route
\* handlers run get_and_clear_log_buffer; every step of a thread between two
\* points where another thread can run is one action.  A record is
\* [id, level, thread]; logbuf.appended lists the records in the order they were
\* appended, logbuf.overflowed those the deque dropped, logbuf.returned the
\* results of the finished flushes.
Loggers == {"t1", "t2"}
Flushers == {"f1", "f2"}
\* the session a thread works for: t1 logs while session 1 is served, f1 is
\* the generator of session 1 calling flush_log_buffer (research.py:127-142)
\* or emit_ask_log_buffer (ask.py:135-149) for its own stream
SessionOf == [t1 |-> 1, f1 |-> 1, t2 |-> 2, f2 |-> 2]
LogLevels == {"INFO", "WARNING", "ERROR"}
NoRecord == [id |-> 0, level |-> "none", thread |-> "none"]

Entries(buffer) == {buffer[i] : i \in DOMAIN buffer}

LogIdle ==
    logbuf = [buffer |-> <<>>, lock |-> "none", pc |-> [t \in Loggers \cup Flushers |-> "none"],
              rec |-> [t \in Loggers |-> NoRecord], snapshot |-> [f \in Flushers |-> <<>>],
              records |-> 0, appended |-> <<>>, overflowed |-> {}, returned |-> <<>>]

LogInit ==
    logbuf = [buffer |-> <<>>, lock |-> "free", pc |-> [t \in Loggers \cup Flushers |-> "idle"],
              rec |-> [t \in Loggers |-> NoRecord], snapshot |-> [f \in Flushers |-> <<>>],
              records |-> 0, appended |-> <<>>, overflowed |-> {}, returned |-> <<>>]

\* deque.append on a deque with maxlen: a full deque drops its oldest entry
deque_append(buffer, entry) ==
    IF Len(buffer) >= MaxLogBuffer THEN Append(Tail(buffer), entry) ELSE Append(buffer, entry)

\* a logger call on thread t: the handler has level WARNING
\* (log_config.py:54-55), records below it never reach emit; for the others
\* emit formats the record (58-60) and goes for the lock
LogCall(t, level) ==
    /\ logbuf.pc[t] = "idle" /\ logbuf.records < MaxRecords
    /\ logbuf' = [logbuf EXCEPT
                    !.records = @ + 1,
                    !.pc[t] = IF level = "INFO" THEN "idle" ELSE "formatted",
                    !.rec[t] = IF level = "INFO" THEN NoRecord
                               ELSE [id |-> logbuf.records + 1, level |-> level,
                                     thread |-> t]]
    /\ UNCHANGED nonLogVars

\* log_config.py:61: with _log_buffer_lock (enter)
EmitAcquire(t) ==
    /\ logbuf.pc[t] = "formatted" /\ logbuf.lock = "free"
    /\ logbuf' = [logbuf EXCEPT !.lock = t, !.pc[t] = "locked"]
    /\ UNCHANGED nonLogVars

\* log_config.py:62-67: _log_buffer.append(...), leave the with block
EmitAppend(t) ==
    /\ logbuf.pc[t] = "locked"
    /\ logbuf' = [logbuf EXCEPT
                    !.buffer = deque_append(@, logbuf.rec[t]),
                    !.appended = Append(@, logbuf.rec[t]),
                    !.overflowed = @ \cup ((Entries(logbuf.buffer) \cup {logbuf.rec[t]})
                                            \ Entries(deque_append(logbuf.buffer, logbuf.rec[t]))),
                    !.lock = "free", !.pc[t] = "idle", !.rec[t] = NoRecord]
    /\ UNCHANGED nonLogVars

\* a get_and_clear_log_buffer that does not take the lock
FlushWithoutLock(f) ==
    /\ logbuf.pc[f] = "idle" /\ Len(logbuf.returned) < MaxFlushes
    /\ logbuf' = [logbuf EXCEPT !.pc[f] = "locked"]
    /\ UNCHANGED nonLogVars

\* log_config.py:79: with _log_buffer_lock (enter)
FlushAcquire(f) ==
    /\ logbuf.pc[f] = "idle" /\ Len(logbuf.returned) < MaxFlushes
    /\ logbuf.lock = "free"
    /\ logbuf' = [logbuf EXCEPT !.lock = f, !.pc[f] = "locked"]
    /\ UNCHANGED nonLogVars

\* log_config.py:80: logs = list(_log_buffer)
FlushSnapshot(f) ==
    /\ logbuf.pc[f] = "locked"
    /\ logbuf' = [logbuf EXCEPT !.snapshot[f] = logbuf.buffer, !.pc[f] = "copied"]
    /\ UNCHANGED nonLogVars

\* log_config.py:81: _log_buffer.clear(), leave the with block
FlushClear(f) ==
    /\ logbuf.pc[f] = "copied"
    /\ logbuf' = [logbuf EXCEPT !.buffer = <<>>, !.pc[f] = "cleared",
                                !.lock = IF @ = f THEN "free" ELSE @]
    /\ UNCHANGED nonLogVars

\* log_config.py:82: return logs
FlushReturn(f) ==
    /\ logbuf.pc[f] = "cleared"
    /\ logbuf' = [logbuf EXCEPT !.returned = Append(@, [by |-> f, logs |-> logbuf.snapshot[f]]),
                                !.snapshot[f] = <<>>, !.pc[f] = "idle"]
    /\ UNCHANGED nonLogVars

LogNext ==
    \/ \E t \in Loggers, level \in LogLevels : LogCall(t, level)
    \/ \E t \in Loggers : EmitAcquire(t)
    \/ \E t \in Loggers : EmitAppend(t)
    \/ \E f \in Flushers : FlushAcquire(f)
    \/ \E f \in Flushers : FlushSnapshot(f)
    \/ \E f \in Flushers : FlushClear(f)
    \/ \E f \in Flushers : FlushReturn(f)

\* ------------------------------------------- one scrape_urls_batch call
\* camoufox_scraper.py:241-357 step by step: batch.results is the dict being
\* filled (its keys), batch.read the URLs whose page text was accepted,
\* batch.failed those whose navigation raised, batch.returned what the
\* caller got.
BatchUrls == [scheme : {"https"}, hostname : {"example.com", "example.org", "localhost"},
              port : {0}, length : {60}]

\* n copies of a URL
Repeat(url, n) == [i \in 1..n |-> url]

\* the lists given to a call: short ones, and lists that are one longer than
\* MAX_URLS_PER_BATCH
BatchLists ==
    {<<>>} \cup {<<a>> : a \in BatchUrls} \cup {<<a, b>> : a \in BatchUrls, b \in BatchUrls}
    \cup {Repeat(a, MAX_URLS_PER_BATCH) \o <<b>> : a \in BatchUrls, b \in BatchUrls}

BatchIdle ==
    batch = [pc |-> "none", urls |-> <<>>, safe_urls |-> <<>>, i |-> 0, results |-> {},
             read |-> {}, failed |-> {}, browser |-> "none", returned |-> {}]

BatchInit ==
    \E urls \in BatchLists :
        batch = [pc |-> "called", urls |-> urls, safe_urls |-> <<>>, i |-> 0, results |-> {},
                 read |-> {}, failed |-> {}, browser |-> "none", returned |-> {}]

\* camoufox_scraper.py:265-287: empty list, truncation to
\* MAX_URLS_PER_BATCH, validate_urls, nothing safe, camoufox import
BatchBegin(installed) ==
    /\ batch.pc = "called"
    /\ LET safe_urls == validate_urls(Take(batch.urls, MAX_URLS_PER_BATCH))
       IN batch' = IF batch.urls = <<>> \/ safe_urls = <<>> \/ ~installed
                   THEN [batch EXCEPT !.pc = "returned", !.returned = {},
                                      !.safe_urls = IF batch.urls = <<>> THEN <<>> ELSE safe_urls]
                   ELSE [batch EXCEPT !.pc = "starting", !.safe_urls = safe_urls]
    /\ UNCHANGED nonBatchVars

\* camoufox_scraper.py:292-298, 337-338: start the browser and open a page;
\* a failure is caught by the outer except
BrowserStart(outcome) ==
    /\ batch.pc = "starting"
    /\ batch' = CASE outcome = "started" ->
                       [batch EXCEPT !.pc = "loop", !.i = 1, !.browser = "open"]
                  [] outcome = "no_browser" ->
                       [batch EXCEPT !.pc = "returned", !.returned = batch.results]
                  [] outcome = "no_page" ->
                       [batch EXCEPT !.pc = "closing", !.browser = "open"]
    /\ UNCHANGED nonBatchVars

\* camoufox_scraper.py:300-333: one turn of the loop: page.goto and
\* page.evaluate; a text of more than 50 characters goes into results, an
\* empty page or an exception of goto / evaluate leaves results as it is
Navigate(outcome) ==
    /\ batch.pc = "loop" /\ batch.i <= Len(batch.safe_urls)
    /\ batch' = [batch EXCEPT
                   !.i = @ + 1,
                   !.results = IF outcome = "text" THEN @ \cup {batch.safe_urls[batch.i]} ELSE @,
                   !.read = IF outcome = "text" THEN @ \cup {batch.safe_urls[batch.i]} ELSE @,
                   !.failed = IF outcome = "failed" THEN @ \cup {batch.safe_urls[batch.i]} ELSE @]
    /\ UNCHANGED nonBatchVars

\* camoufox_scraper.py:335: the loop is through
LoopDone ==
    /\ batch.pc = "loop" /\ batch.i > Len(batch.safe_urls)
    /\ batch' = [batch EXCEPT !.pc = "closing"]
    /\ UNCHANGED nonBatchVars

\* a close without wait_for and without handlers: a hanging close never
\* returns, a failing close leaves the function with its exception
BrowserCloseUnguarded(outcome) ==
    /\ batch.pc = "closing"
    /\ batch' = CASE outcome = "closed" ->
                       [batch EXCEPT !.pc = "returned", !.browser = "closed",
                                     !.returned = batch.results]
                  [] outcome = "timeout" -> [batch EXCEPT !.pc = "hung"]
                  [] outcome = "raised" -> [batch EXCEPT !.pc = "raised"]
    /\ UNCHANGED nonBatchVars

\* camoufox_scraper.py:340-357: asyncio.wait_for(browser.close(), 10.0);
\* TimeoutError and any other exception are logged; return results
BrowserClose(outcome) ==
    /\ batch.pc = "closing"
    /\ batch' = [batch EXCEPT !.pc = "returned", !.browser = outcome,
                              !.returned = batch.results]
    /\ UNCHANGED nonBatchVars

BatchNext ==
    \/ \E installed \in BOOLEAN : BatchBegin(installed)
    \/ \E outcome \in {"started", "no_browser", "no_page"} : BrowserStart(outcome)
    \/ \E outcome \in {"text", "empty", "failed"} : Navigate(outcome)
    \/ LoopDone
    \/ \E outcome \in {"closed", "timeout", "raised"} : BrowserClose(outcome)

\* --------------------------------------- _execute_all_searches_async
\* search.py:160-196 with _search_ddg_async (72-75) and _search_ddg_sync
\* (28-69).  The result list of a search is modelled by the position of the
\* search that produced it (<<k>>: the hits of the k-th search of the call,
\* <<>>: no hits); srch.log lists the searches in the order they ended.
SearchQueryLists ==
    {<<>>} \cup {<<a>> : a \in Queries} \cup {<<a, b>> : a \in Queries, b \in Queries}
    \cup {<<a, b, c>> : a \in Queries, b \in Queries, c \in Queries}

SearchIdle ==
    srch = [pc |-> "none", queries |-> <<>>, i |-> 0, in_flight |-> 0,
            all_results |-> EmptyDict, log |-> <<>>, returned |-> EmptyDict]

SearchInit ==
    \E queries \in SearchQueryLists :
        srch = [pc |-> "loop", queries |-> queries, i |-> 1, in_flight |-> 0,
                all_results |-> EmptyDict, log |-> <<>>, returned |-> EmptyDict]

\* search.py:28-69: the hits of the search, [] when DDGS raises
_search_ddg_sync(k, outcome) == IF outcome = "hits" THEN <<k>> ELSE <<>>

\* search.py:182-184: the next query is handed to the executor and awaited
SearchBegin ==
    /\ srch.pc = "loop" /\ srch.i <= Len(srch.queries)
    /\ srch' = [srch EXCEPT !.pc = "searching", !.in_flight = @ + 1]
    /\ UNCHANGED nonSearchVars

\* a search whose exception is not caught: it leaves the call
SearchEndUncaught(outcome) ==
    /\ srch.pc = "searching"
    /\ srch' = IF outcome = "raised"
               THEN [srch EXCEPT !.pc = "raised", !.in_flight = @ - 1,
                                 !.log = Append(@, [query |-> srch.queries[srch.i],
                                                    outcome |-> outcome, results |-> <<>>])]
               ELSE [srch EXCEPT !.pc = "loop", !.in_flight = @ - 1, !.i = @ + 1,
                                 !.all_results = DictPut(@, srch.queries[srch.i],
                                                         _search_ddg_sync(srch.i, outcome)),
                                 !.log = Append(@, [query |-> srch.queries[srch.i],
                                                    outcome |-> outcome,
                                                    results |-> _search_ddg_sync(srch.i, outcome)])]
    /\ UNCHANGED nonSearchVars

\* search.py:184-190: the search is back (hits, no hits, or an exception
\* that _search_ddg_sync turned into []): all_results[query] = results, pause
SearchEnd(outcome) ==
    /\ srch.pc = "searching"
    /\ srch' = [srch EXCEPT !.pc = "loop", !.in_flight = @ - 1, !.i = @ + 1,
                            !.all_results = DictPut(@, srch.queries[srch.i],
                                                    _search_ddg_sync(srch.i, outcome)),
                            !.log = Append(@, [query |-> srch.queries[srch.i],
                                               outcome |-> outcome,
                                               results |-> _search_ddg_sync(srch.i, outcome)])]
    /\ UNCHANGED nonSearchVars

\* search.py:192-196: return all_results
SearchReturn ==
    /\ srch.pc = "loop" /\ srch.i > Len(srch.queries)
    /\ srch' = [srch EXCEPT !.pc = "returned", !.returned = srch.all_results]
    /\ UNCHANGED nonSearchVars

SearchNext ==
    \/ SearchBegin
    \/ \E outcome \in {"hits", "none", "raised"} : SearchEnd(outcome)
    \/ SearchReturn

\* ------------------------------------------- language of status messages
\* A status message is modelled by where its text comes from: the key of
\* STATUS_MESSAGES and the variant taken (from_table), or an f-string of the
\* generator with the language it is written in (not from_table).
Languages == {"de", "en"}

\* research.py:103-124, t(key, lang): STATUS_MESSAGES[key].get(lang, <the "de" variant>)
translate(key, lang) ==
    [key |-> key, variant |-> IF lang \in Languages THEN lang ELSE "de", from_table |-> TRUE]

\* f"{punkt_label} {'<english>' if lang == 'en' else '<german>'}"
Inline(text, lang) ==
    [key |-> text, variant |-> IF lang = "en" THEN "en" ELSE "de", from_table |-> FALSE]

\* research.py:910-1220: the status messages of a Flat point that gets its
\* dossier, in order
FlatStatusKeys == <<"developing_strategy", "searches_planned", "searching",
                    "selecting_sources", "urls_selected", "reading", "sources_read",
                    "creating_dossier", "dossier_done">>

\* the status message that ends a Flat point early, and the number of
\* messages of FlatStatusKeys emitted before it
FlatSkipAfter == [think_failed |-> 1, no_queries |-> 1, no_results |-> 3,
                  no_urls_skip |-> 4, no_content |-> 6, dossier_failed |-> 8]

\* research.py:1687-1798: the status f-strings of an Academic point
AcademicStatusTexts == <<"point_title", "developing_strategy", "searching",
                         "selecting_sources", "reading", "creating_dossier">>

LangIdle ==
    msgs = [entry |-> "none", language |-> "", lang |-> "", pc |-> "none",
            points |-> 0, step |-> 0, out |-> <<>>]

\* a request with its language field
LangInit ==
    \E entry \in {"deep", "resume", "academic"}, language \in Languages :
        msgs = [entry |-> entry, language |-> language, lang |-> "", pc |-> "request",
                points |-> 0, step |-> 0, out |-> <<>>]

\* research.py:687-688, 799, 872: POST /research/deep: lang = request.language
research_deep ==
    /\ msgs.pc = "request" /\ msgs.entry = "deep"
    /\ msgs' = [msgs EXCEPT !.lang = msgs.language, !.pc = "points",
                            !.out = Append(@, translate("deep_research_start", msgs.language))]
    /\ UNCHANGED nonLangVars

\* research.py:1466-1510, 666-676, 799, 865-870: POST /research/resume builds
\* a DeepResearchRequest without language, whose field then has its default
\* "de"; the generator takes lang from that request
resume_session_status ==
    /\ msgs.pc = "request" /\ msgs.entry = "resume"
    /\ msgs' = [msgs EXCEPT !.lang = "de", !.pc = "points",
                            !.out = Append(@, translate("session_resumed", "de"))]
    /\ UNCHANGED nonLangVars

\* research.py:1527-1528, 1625, 1639-1642: POST /research/academic
research_academic ==
    /\ msgs.pc = "request" /\ msgs.entry = "academic"
    /\ msgs' = [msgs EXCEPT !.lang = msgs.language, !.pc = "points",
                            !.out = Append(@, translate("academic_start", msgs.language))]
    /\ UNCHANGED nonLangVars

\* research.py:910-1220: the next status message of the current Flat point
FlatStatus ==
    /\ msgs.pc = "points" /\ msgs.entry \in {"deep", "resume"}
    /\ msgs.points < MaxStatusPoints
    /\ LET last_one == msgs.step + 1 = Len(FlatStatusKeys)
       IN msgs' = [msgs EXCEPT
                     !.out = Append(@, translate(FlatStatusKeys[msgs.step + 1], msgs.lang)),
                     !.step = IF last_one THEN 0 ELSE @ + 1,
                     !.points = IF last_one THEN @ + 1 ELSE @]
    /\ UNCHANGED nonLangVars

\* research.py:932, 948, 974, 1090, 1133, 1174: the point is given up
FlatSkipStatus(key) ==
    /\ msgs.pc = "points" /\ msgs.entry \in {"deep", "resume"}
    /\ msgs.points < MaxStatusPoints
    /\ msgs.step = FlatSkipAfter[key]
    /\ msgs' = [msgs EXCEPT !.out = Append(@, translate(key, msgs.lang)),
                            !.step = 0, !.points = @ + 1]
    /\ UNCHANGED nonLangVars

\* research.py:1687-1798: the next status message of the current Academic
\* point
AcademicStatus ==
    /\ msgs.pc = "points" /\ msgs.entry = "academic"
    /\ msgs.points < MaxStatusPoints
    /\ LET last_one == msgs.step + 1 = Len(AcademicStatusTexts)
       IN msgs' = [msgs EXCEPT
                     !.out = Append(@, Inline(AcademicStatusTexts[msgs.step + 1], msgs.lang)),
                     !.step = IF last_one THEN 0 ELSE @ + 1,
                     !.points = IF last_one THEN @ + 1 ELSE @]
    /\ UNCHANGED nonLangVars

\* research.py:1240-1241, 1307 and 2001: the closing status messages
FinishStatus ==
    /\ msgs.pc = "points" /\ msgs.step = 0
    /\ msgs' = [msgs EXCEPT
                  !.pc = "done",
                  !.out = IF msgs.entry = "academic"
                          THEN Append(@, translate("academic_complete", msgs.lang))
                          ELSE @ \o <<translate("starting_synthesis", msgs.lang),
                                      translate("combining_dossiers", msgs.lang),
                                      translate("research_complete", msgs.lang)>>]
    /\ UNCHANGED nonLangVars

LangNext ==
    \/ research_deep
    \/ resume_session_status
    \/ research_academic
    \/ FlatStatus
    \/ \E key \in DOMAIN FlatSkipAfter : FlatSkipStatus(key)
    \/ AcademicStatus
    \/ FinishStatus

\* --------------------------------------- API configuration of the process
\* api_config.py:14-18: _OPENROUTER_API_KEY and _PROVIDER are module globals,
\* shared by all requests of the process.  apicfg.config is that pair,
\* apicfg.session[r] the request of session r and its position,
\* apicfg.sent the headers of the LLM requests made, with the session that
\* made them.
ApiKeys == {"key_1", "key_2"}
Providers == {"openrouter", "anthropic", "google"}

\* api_config.py:102-118
get_api_headers(config) ==
    [authorization |-> IF config.key # "" THEN config.key ELSE "",
     x_goog_api_key |-> IF config.provider = "google" /\ config.key # "" THEN config.key ELSE "",
     x_api_key |-> IF config.provider = "anthropic" /\ config.key # "" THEN config.key ELSE ""]

\* api_config.py:52-74: the key and the provider are overwritten
set_api_config(key, provider) ==
    [key |-> key, provider |-> IF provider = "" THEN "openrouter" ELSE provider]

CfgIdle ==
    apicfg = [config |-> [key |-> "", provider |-> ""],
              session |-> [r \in RunIds |-> [pc |-> "none", key |-> "", provider |-> "", calls |-> 0]],
              sent |-> <<>>]

\* api_config.py:14-15: the globals at import
CfgInit ==
    apicfg = [config |-> [key |-> "", provider |-> "openrouter"],
              session |-> [r \in RunIds |-> [pc |-> "idle", key |-> "", provider |-> "", calls |-> 0]],
              sent |-> <<>>]

\* research.py:687-768 / 1527-1579: a /research/deep or /research/academic
\* request arrives: set_api_config with the request's key and provider, the
\* generator is handed to StreamingResponse
SessionRequest(r, key, provider) ==
    /\ apicfg.session[r].pc = "idle"
    /\ apicfg' = [apicfg EXCEPT
                    !.config = set_api_config(key, provider),
                    !.session[r] = [pc |-> "running", key |-> key, provider |-> provider,
                                    calls |-> 0]]
    /\ UNCHANGED nonCfgVars

\* research.py:719-752 / 1585-1618: call_llm of session r:
\* requests.post(BASE_URL, headers=get_api_headers(), ...)
call_llm(r) ==
    /\ apicfg.session[r].pc = "running" /\ apicfg.session[r].calls < MaxLlmCalls
    /\ apicfg' = [apicfg EXCEPT
                    !.session[r].calls = @ + 1,
                    !.sent = Append(@, [session |-> r,
                                        headers |-> get_api_headers(apicfg.config)])]
    /\ UNCHANGED nonCfgVars

\* research.py:1326 / 2024: the generator of session r ends
SessionEnd(r) ==
    /\ apicfg.session[r].pc = "running"
    /\ apicfg' = [apicfg EXCEPT !.session[r].pc = "ended"]
    /\ UNCHANGED nonCfgVars

CfgNext ==
    \/ \E r \in RunIds, key \in ApiKeys, provider \in Providers : SessionRequest(r, key, provider)
    \/ \E r \in RunIds : call_llm(r)
    \/ \E r \in RunIds : SessionEnd(r)

\* ------------------------------- parallel scrape of one Ask scrape phase
\* deep_question_pipeline.py:226-276 with ask.py:473-499: one task per URL,
\* all tasks of one event loop.  A task is suspended only inside
\* _scrape_single_url_async; from its return to the end of
\* progress_callback (which calls emit_ask_event and awaits nothing) no
\* other task runs.  par.order lists the tasks in the order they finished.
ParIdle ==
    par = [pc |-> "none", total |-> 0, task |-> <<>>, completed |-> 0,
           emitted |-> <<>>, order |-> <<>>, successes |-> 0]

\* ask.py:473, deep_question_pipeline.py:206-228: scrape_start is out, the
\* searches found the URLs all_urls[:10]
ParInit ==
    \E total \in 0..Min({MaxParallel, ASK_URL_LIMIT}) :
        par = [pc |-> "urls", total |-> total, task |-> [k \in 1..total |-> "created"],
               completed |-> 0, emitted |-> <<AskEnv("scrape_start", "", 1, 0, 0)>>,
               order |-> <<>>, successes |-> 0]

\* deep_question_pipeline.py:230-231, 250-254: no URL: return []; otherwise
\* the tasks are handed to asyncio.gather
StartTasks ==
    /\ par.pc = "urls"
    /\ par' = [par EXCEPT !.pc = IF par.total = 0 THEN "gathered" ELSE "gather"]
    /\ UNCHANGED nonParVars

\* deep_question_pipeline.py:242-244, 131-146: task k starts its browser and
\* is suspended in it
TaskBegin(k) ==
    /\ par.pc = "gather" /\ par.task[k] = "created"
    /\ par' = [par EXCEPT !.task[k] = "scraping"]
    /\ UNCHANGED nonParVars

\* a scrape_with_progress that reports its own index as the done value
TaskFinishReportsIndex(k, success) ==
    /\ par.pc = "gather" /\ par.task[k] = "scraping"
    /\ par' = [par EXCEPT
                 !.task[k] = "finished",
                 !.completed = @ + 1,
                 !.order = Append(@, k),
                 !.successes = IF success THEN @ + 1 ELSE @,
                 !.emitted = Append(@, AskEnv("scrape_progress", "", 1, k, par.total))]
    /\ UNCHANGED nonParVars

\* deep_question_pipeline.py:244-248, ask.py:476-482: the scrape of task k
\* is back: completed += 1, progress_callback(completed, total) emits
\* scrape_progress
TaskFinish(k, success) ==
    /\ par.pc = "gather" /\ par.task[k] = "scraping"
    /\ par' = [par EXCEPT
                 !.task[k] = "finished",
                 !.completed = @ + 1,
                 !.order = Append(@, k),
                 !.successes = IF success THEN @ + 1 ELSE @,
                 !.emitted = Append(@, AskEnv("scrape_progress", "", 1, par.completed + 1,
                                              par.total))]
    /\ UNCHANGED nonParVars

\* deep_question_pipeline.py:254, 276: gather returns when every task has
\* finished
GatherReturns ==
    /\ par.pc = "gather"
    /\ \A k \in DOMAIN par.task : par.task[k] = "finished"
    /\ par' = [par EXCEPT !.pc = "gathered"]
    /\ UNCHANGED nonParVars

\* ask.py:489-499: scrape_done with the number of results
ScrapeDone ==
    /\ par.pc = "gathered"
    /\ par' = [par EXCEPT !.pc = "done",
                          !.emitted = Append(@, AskEnv("scrape_done", "", 1, 0, par.total))]
    /\ UNCHANGED nonParVars

ParNext ==
    \/ StartTasks
    \/ \E k \in 1..MaxParallel : k \in DOMAIN par.task /\ TaskBegin(k)
    \/ \E k \in 1..MaxParallel, success \in BOOLEAN :
          k \in DOMAIN par.task /\ TaskFinish(k, success)
    \/ GatherReturns
    \/ ScrapeDone

\* ------------------------------------------------------ specifications
InitCite == CiteInit /\ RnIdle /\ GenIdle /\ NavIdle /\ CkptIdle /\ BusIdle /\ PickIdle /\ SessIdle /\ LoopIdle /\ AreaIdle /\ AskIdle /\ LogIdle /\ BatchIdle /\ SearchIdle /\ LangIdle /\ CfgIdle /\ ParIdle

SpecCite == InitCite /\ [][CiteNext]_vars

InitRenumber == RnInit /\ CiteIdle /\ GenIdle /\ NavIdle /\ CkptIdle /\ BusIdle /\ PickIdle /\ SessIdle /\ LoopIdle /\ AreaIdle /\ AskIdle /\ LogIdle /\ BatchIdle /\ SearchIdle /\ LangIdle /\ CfgIdle /\ ParIdle

SpecRenumber == InitRenumber /\ [][RnCall]_vars

InitStream == StreamInit /\ CiteIdle /\ RnIdle /\ NavIdle /\ CkptIdle /\ BusIdle /\ PickIdle /\ SessIdle /\ LoopIdle /\ AreaIdle /\ AskIdle /\ LogIdle /\ BatchIdle /\ SearchIdle /\ LangIdle /\ CfgIdle /\ ParIdle

SpecStream == InitStream /\ [][StreamNext]_vars

InitNav == NavInit /\ CiteIdle /\ RnIdle /\ GenIdle /\ CkptIdle /\ BusIdle /\ PickIdle /\ SessIdle /\ LoopIdle /\ AreaIdle /\ AskIdle /\ LogIdle /\ BatchIdle /\ SearchIdle /\ LangIdle /\ CfgIdle /\ ParIdle

SpecNav == InitNav /\ [][NavNext]_vars

InitCkpt == CkptInit /\ CiteIdle /\ RnIdle /\ GenIdle /\ NavIdle /\ BusIdle /\ PickIdle /\ SessIdle /\ LoopIdle /\ AreaIdle /\ AskIdle /\ LogIdle /\ BatchIdle /\ SearchIdle /\ LangIdle /\ CfgIdle /\ ParIdle

SpecCkpt == InitCkpt /\ [][CkptNext]_vars

InitBus == BusInit /\ CiteIdle /\ RnIdle /\ GenIdle /\ NavIdle /\ CkptIdle /\ PickIdle /\ SessIdle /\ LoopIdle /\ AreaIdle /\ AskIdle /\ LogIdle /\ BatchIdle /\ SearchIdle /\ LangIdle /\ CfgIdle /\ ParIdle

SpecBus == InitBus /\ [][BusNext]_vars

\* the event bus with a subscriber loop that keeps being scheduled: an
\* envelope that is in the queue of a listening subscriber gets delivered,
\* and a wait that times out is followed by a ping
SpecBusFair == InitBus /\ [][BusNext]_vars /\ WF_vars(Deliver) /\ WF_vars(Ping)

InitPick == PickInit /\ CiteIdle /\ RnIdle /\ GenIdle /\ NavIdle /\ CkptIdle /\ BusIdle /\ SessIdle /\ LoopIdle /\ AreaIdle /\ AskIdle /\ LogIdle /\ BatchIdle /\ SearchIdle /\ LangIdle /\ CfgIdle /\ ParIdle

SpecPick == InitPick /\ [][PickNext]_vars

InitSess == SessInit /\ CiteIdle /\ RnIdle /\ GenIdle /\ NavIdle /\ CkptIdle /\ BusIdle /\ PickIdle /\ LoopIdle /\ AreaIdle /\ AskIdle /\ LogIdle /\ BatchIdle /\ SearchIdle /\ LangIdle /\ CfgIdle /\ ParIdle

SpecSess == InitSess /\ [][SessNext]_vars

InitLoop == LoopInit /\ CiteIdle /\ RnIdle /\ GenIdle /\ NavIdle /\ CkptIdle /\ BusIdle /\ PickIdle /\ SessIdle /\ AreaIdle /\ AskIdle /\ LogIdle /\ BatchIdle /\ SearchIdle /\ LangIdle /\ CfgIdle /\ ParIdle

SpecLoop == InitLoop /\ [][LoopNext]_vars

InitArea == AreaInit /\ CiteIdle /\ RnIdle /\ GenIdle /\ NavIdle /\ CkptIdle /\ BusIdle /\ PickIdle /\ SessIdle /\ LoopIdle /\ AskIdle /\ LogIdle /\ BatchIdle /\ SearchIdle /\ LangIdle /\ CfgIdle /\ ParIdle

SpecArea == InitArea /\ [][AreaNext]_vars

InitAsk == AskInit /\ CiteIdle /\ RnIdle /\ GenIdle /\ NavIdle /\ CkptIdle /\ BusIdle /\ PickIdle /\ SessIdle /\ LoopIdle /\ AreaIdle /\ LogIdle /\ BatchIdle /\ SearchIdle /\ LangIdle /\ CfgIdle /\ ParIdle

SpecAsk == InitAsk /\ [][AskNext]_vars

InitLog == LogInit /\ CiteIdle /\ RnIdle /\ GenIdle /\ NavIdle /\ CkptIdle /\ BusIdle /\ PickIdle /\ SessIdle /\ LoopIdle /\ AreaIdle /\ AskIdle /\ BatchIdle /\ SearchIdle /\ LangIdle /\ CfgIdle /\ ParIdle

SpecLog == InitLog /\ [][LogNext]_vars

InitBatch == BatchInit /\ CiteIdle /\ RnIdle /\ GenIdle /\ NavIdle /\ CkptIdle /\ BusIdle /\ PickIdle /\ SessIdle /\ LoopIdle /\ AreaIdle /\ AskIdle /\ LogIdle /\ SearchIdle /\ LangIdle /\ CfgIdle /\ ParIdle

SpecBatch == InitBatch /\ [][BatchNext]_vars

InitSearch == SearchInit /\ CiteIdle /\ RnIdle /\ GenIdle /\ NavIdle /\ CkptIdle /\ BusIdle /\ PickIdle /\ SessIdle /\ LoopIdle /\ AreaIdle /\ AskIdle /\ LogIdle /\ BatchIdle /\ LangIdle /\ CfgIdle /\ ParIdle

SpecSearch == InitSearch /\ [][SearchNext]_vars

InitLang == LangInit /\ CiteIdle /\ RnIdle /\ GenIdle /\ NavIdle /\ CkptIdle /\ BusIdle /\ PickIdle /\ SessIdle /\ LoopIdle /\ AreaIdle /\ AskIdle /\ LogIdle /\ BatchIdle /\ SearchIdle /\ CfgIdle /\ ParIdle

SpecLang == InitLang /\ [][LangNext]_vars

InitCfg == CfgInit /\ CiteIdle /\ RnIdle /\ GenIdle /\ NavIdle /\ CkptIdle /\ BusIdle /\ PickIdle /\ SessIdle /\ LoopIdle /\ AreaIdle /\ AskIdle /\ LogIdle /\ BatchIdle /\ SearchIdle /\ LangIdle /\ ParIdle

SpecCfg == InitCfg /\ [][CfgNext]_vars

InitPar == ParInit /\ CiteIdle /\ RnIdle /\ GenIdle /\ NavIdle /\ CkptIdle /\ BusIdle /\ PickIdle /\ SessIdle /\ LoopIdle /\ AreaIdle /\ AskIdle /\ LogIdle /\ BatchIdle /\ SearchIdle /\ LangIdle /\ CfgIdle

SpecPar == InitPar /\ [][ParNext]_vars

\* =========================================================== claims


\* the terminal envelopes of a stream
IsTerminal(e) == e.type \in {"done", "error"}
TerminalCount == Cardinality({i \in DOMAIN stream : IsTerminal(stream[i])})

\* C1: a stream of /research/run, /research/deep or /research/academic
\* that has ended holds exactly one terminal envelope (done or error) and
\* that envelope is its last line, whatever the LLM, search and scrape
\* steps deliver and wherever an exception is raised; a stream that has
\* not ended holds no terminal envelope yet.
C1_OneTerminalEnvelopeLast ==
    request.mode \in {"run", "deep", "academic"} =>
        IF gen.pc = "closed"
        THEN /\ Len(stream) > 0
             /\ IsTerminal(stream[Len(stream)])
             /\ TerminalCount = 1
        ELSE TerminalCount = 0

\* C1 witness: an Academic stream that ended with the error envelope of
\* the except branch after a point had already been completed
C1_Witness ==
    /\ request.mode = "academic" /\ gen.pc = "closed"
    /\ Len(stream) > 0 /\ stream[Len(stream)].type = "error"
    /\ \E i \in DOMAIN stream : stream[i].type = "point_complete"

\* the point numbers the generator has taken from the plan
ProcessedPoints ==
    IF request.mode = "deep" /\ request.is_resume
    THEN 2..gen.point_index
    ELSE 1..gen.point_index

PointCompletes(n) ==
    {i \in DOMAIN stream : stream[i].type = "point_complete" /\ stream[i].point_number = n}

\* C2: in a Flat or Academic run that reached done, every point of the
\* plan has exactly one point_complete envelope, carrying either the
\* dossier or skipped=true with a reason.
C2_OnePointCompletePerPoint ==
    (/\ request.mode \in {"deep", "academic"}
     /\ gen.pc = "closed"
     /\ Len(stream) > 0 /\ stream[Len(stream)].type = "done")
    => \A n \in ProcessedPoints :
          /\ Cardinality(PointCompletes(n)) = 1
          /\ \A i \in PointCompletes(n) : stream[i].skipped => stream[i].skip_reason # ""

\* C3: every URL handed to the browser for navigation, by the setup
\* pipeline, Flat, Academic and both Ask scrape phases, satisfies
\* validate_url.
C3_NavigatedUrlsAreValid ==
    \A i \in DOMAIN nav.navigated : validate_url(nav.navigated[i])

\* C4: at any instant, also in the middle of a save_checkpoint and after
\* the process died during one, checkpoint.json is either absent or a
\* complete snapshot, and a reader never finds a truncated file.
C4_CheckpointNeverPartial ==
    /\ disk.state \in {"absent", "complete"}
    /\ seen # "truncated"

\* C5: when a Flat run was interrupted after k completed dossiers and
\* /research/resume is called with its session id, the reply is a stream
\* that ends with done, covers the whole original plan (no point having
\* been skipped) and starts with the k dossiers of the checkpoint.
C5_ResumeCompletesThePlan ==
    (/\ run.pc = "interrupted"
     /\ resume.called
     /\ resume.checkpoint # NoPayload
     /\ resume.checkpoint.has_remaining
     /\ resume.checkpoint.remaining_points # <<>>
     /\ Len(resume.checkpoint.completed_dossiers)
          + Len(resume.checkpoint.remaining_points)
          = Len(resume.checkpoint.research_plan))
    => /\ resume.reply = "done"
       /\ Len(resume.completed_dossiers) = Len(resume.checkpoint.research_plan)
       /\ SubSeq(resume.completed_dossiers, 1,
                 Len(resume.checkpoint.completed_dossiers))
            = resume.checkpoint.completed_dossiers

\* C6: once a global citation index is mapped to a URL in source_registry,
\* no later operation of the run changes the URL at that index: neither
\* the renumbering of a dossier text nor the renumbering of a
\* key_learnings block overwrites an existing entry.
C6_RegistryEntryNeverReassigned ==
    last.kind = "dossier" =>
        /\ \A g \in DOMAIN last.reg_before :
              g \in DOMAIN last.reg_text /\ last.reg_text[g] = last.reg_before[g]
        /\ \A g \in DOMAIN last.reg_text :
              g \in DOMAIN source_registry /\ source_registry[g] = last.reg_text[g]

\* all citation indices that occur in the dossier texts of the run
AllTextIndices ==
    UNION {Tokens(completed_dossiers[i].dossier) : i \in DOMAIN completed_dossiers}

\* C7: in a run that is not resumed, if every dossier uses the contiguous
\* local citations [1]..[k_i] and has at least k_i scraped URLs, then the
\* dossier text carries exactly the next k_i global indices, the indices
\* of all dossier texts form the initial segment 1..next_global-1 and
\* source_registry has exactly these keys.
C7_ContiguousRunNumbering ==
    all_contiguous =>
        /\ last.kind = "dossier" =>
              /\ last.text = [i \in DOMAIN last.local_text |-> last.start + i - 1]
              /\ source_counter = last.start + Len(last.local_text)
        /\ AllTextIndices = 1..(source_counter - 1)
        /\ DOMAIN source_registry = 1..(source_counter - 1)

\* C8: renumber_citations rewrites every token [N] to [g(N)], g mapping
\* the distinct local numbers in ascending order to start, start+1, ...,
\* for every set of local numbers and every start >= 1: two different
\* local numbers never end up as the same token, no token is rewritten twice.
C8_EveryTokenRewrittenOnce ==
    rn_out.done =>
        rn_out.text = [i \in DOMAIN rn_in.text |->
                          rn_in.start + Rank(rn_in.text[i], FindLocalNums(rn_in.text))]

\* C9: a local citation number N that occurs in key_learnings is rewritten
\* to the same global index that N received in the dossier text.
C9_LearningsShareDossierIndex ==
    last.kind = "dossier" =>
        \A i \in DOMAIN last.local_learnings :
            LET N == last.local_learnings[i]
                dossier_nums == FindLocalNums(last.local_text)
            IN N \in dossier_nums =>
                 last.learnings[i] = LocalToGlobal(dossier_nums, last.start)[N]

\* the envelopes the subscriber received from the queue (without its own
\* "connected" and "ping" lines)
Delivered == {i \in DOMAIN sub.received : sub.received[i].id # 0}

\* C10: what one subscriber of an Ask session receives is, in the same
\* order and without repetition, a subsequence of what was emitted for
\* the session, and once the subscriber has ended on done an emitted
\* envelope is missing only if it was emitted while no queue was
\* registered or while the queue was full.
C10_SubscriberGetsOrderedSubsequence ==
    /\ \A i \in Delivered :
          /\ sub.received[i].id \in DOMAIN bus.emitted
          /\ bus.emitted[sub.received[i].id].type = sub.received[i].type
    /\ \A i \in Delivered : \A j \in Delivered :
          i < j => sub.received[i].id < sub.received[j].id
    /\ sub.pc = "ended" =>
          \A k \in DOMAIN bus.emitted :
              (\A i \in Delivered : sub.received[i].id # k)
                  => bus.emitted[k].outcome \in {"no_queue", "full"}

\* the ids of the envelopes waiting in the queue
QueuedIds == {bus.items[i].id : i \in DOMAIN bus.items}
DeliveredIds == {sub.received[i].id : i \in Delivered}

\* C11: the queue of a session never holds more than its maximum number
\* of envelopes (100 in the code, QueueMaxSize here); an emit on a full
\* queue returns, leaves the queue as it is, and its envelope is lost:
\* it is neither in the queue nor ever delivered.
C11_QueueBoundedDropOnFull ==
    /\ Len(bus.items) <= QueueMaxSize
    /\ (bus.registered /\ Len(bus.items) = QueueMaxSize) =>
          \A t \in {"log", "stage_content", "done", "error"} :
              /\ emit_ask_event(bus, t).items = bus.items
              /\ emit_event(bus, t).items = bus.items
              /\ emit_ask_event(bus, t).emitted[Len(bus.emitted) + 1].outcome = "full"
              /\ emit_event(bus, t).emitted[Len(bus.emitted) + 1].outcome = "full"
    /\ \A k \in DOMAIN bus.emitted :
          bus.emitted[k].outcome = "full" => k \notin QueuedIds \cup DeliveredIds

\* C11 witness: an envelope was emitted on a full queue and the queue is
\* still full
C11_Witness ==
    /\ bus.registered /\ Len(bus.items) = QueueMaxSize
    /\ \E k \in DOMAIN bus.emitted : bus.emitted[k].outcome = "full"

\* C12: a subscriber ends its sequence and removes the queue as soon as it
\* has consumed a done or an error envelope: such an envelope is the last
\* one it sends, no ping follows it.
C12_SubscriberEndsOnDoneOrError ==
    \A i \in DOMAIN sub.received :
        sub.received[i].type \in {"done", "error"} =>
            /\ i = Len(sub.received)
            /\ sub.pc = "ended"
            /\ ~bus.registered

\* the terminal envelopes emitted for the session
TerminalEmits == {k \in DOMAIN bus.emitted : bus.emitted[k].type \in {"done", "error"}}

\* C13: when the Ask pipeline of a session has ended, exactly one envelope
\* of type done or error was emitted for the session and it is the last
\* envelope emitted, whether all stages succeeded or one raised.
C13_AskOneTerminalEmittedLast ==
    (pipe.kind = "ask" /\ pipe.pc = "ended") =>
        /\ Cardinality(TerminalEmits) = 1
        /\ Len(bus.emitted) \in TerminalEmits

\* positions of the point_complete envelopes of the stream
PointCompletePositions == {i \in DOMAIN stream : stream[i].type = "point_complete"}

\* C14: within one stream the point_number of successive point_complete
\* envelopes strictly increases; in Flat mode, resumed or not, it
\* increases by exactly 1 from one point_complete to the next.
C14_PointNumbersIncrease ==
    \A i \in PointCompletePositions : \A j \in PointCompletePositions :
        i < j =>
            /\ stream[i].point_number < stream[j].point_number
            /\ (/\ request.mode = "deep"
                /\ \A m \in PointCompletePositions : ~(i < m /\ m < j))
               => stream[j].point_number = stream[i].point_number + 1

\* C14 witness: a resumed Flat stream with two point_complete envelopes,
\* the first of them for a skipped point
C14_Witness ==
    /\ request.mode = "deep" /\ request.is_resume
    /\ Cardinality(PointCompletePositions) = 2
    /\ \E i \in PointCompletePositions : stream[i].skipped

\* C15: for one point the reformulation retry runs at most once and only
\* when the first pick selected fewer than 2 safe URLs; the point is skipped
\* with no_urls_after_retry exactly when the reply that counts (the second
\* pick's if it was made and answered, else the first) names no safe URL,
\* and a skipped point scrapes nothing.
SafeCount(reply) ==
    Cardinality({i \in DOMAIN reply.urls : reply.given /\ validate_url(reply.urls[i])})
EffectiveReply ==
    IF pick.retry = "picked" /\ pick.second_reply.given
    THEN pick.second_reply ELSE pick.first_reply
C15_RetryOnceSkipIffNoSafeUrl ==
    /\ pick.retries <= 1
    /\ pick.retries = 1 => SafeCount(pick.first_reply) < 2
    /\ pick.pc \in {"skipped", "scrape", "scraped"} =>
          (pick.skip_reason = "no_urls_after_retry" <=> SafeCount(EffectiveReply) = 0)
    /\ pick.skip_reason # "" => pick.pc = "skipped" /\ pick.scraped = <<>>
    /\ \A i \in DOMAIN pick.scraped : validate_url(pick.scraped[i])
\* both picks returned only URLs like http://127.0.0.1:6379/ and the point
\* was skipped
C15_Witness ==
    /\ pick.pc = "skipped" /\ pick.retries = 1 /\ pick.retry = "picked"
    /\ pick.first_reply.given /\ pick.second_reply.given
    /\ pick.first_reply.urls # <<>> /\ pick.second_reply.urls # <<>>
    /\ \A r \in {pick.first_reply, pick.second_reply} : \A i \in DOMAIN r.urls :
          r.urls[i].hostname = "127.0.0.1" /\ r.urls[i].port = 6379
    /\ pick.scraped = <<>>

\* C16: a resumed run that ran to its end has processed exactly the points
\* of the session's original plan that had no dossier in completed_dossiers
\* when it was resumed, in plan order (points skipped earlier included), and
\* has numbered the first of them len(completed_dossiers) + 1.
PointsWithoutDossier(plan, completed) ==
    SelectSeq(plan, LAMBDA p : \A i \in DOMAIN completed : completed[i] # p)
ProcessedPointsOf(r) == [i \in DOMAIN runs[r].processed |-> runs[r].processed[i].point]
C16_ResumedRunProcessesUndonePoints ==
    \A r \in RunIds :
        (/\ runs[r].is_resume /\ runs[r].pc = "done"
         /\ \A o \in RunIds \ {r} : runs[o].pc \in {"done", "error"}) =>
            /\ ProcessedPointsOf(r)
                  = PointsWithoutDossier(files[runs[r].session_id].origin,
                                         runs[r].resumed_with)
            /\ runs[r].processed # <<>> =>
                  runs[r].processed[1].number = Len(runs[r].resumed_with) + 1

\* C17: a Flat run has written its session's checkpoint once it started,
\* and when it has reached its terminal state (done or error) the
\* checkpoint on disk carries a finished status.
C17_CheckpointWrittenAtTerminalState ==
    \A r \in RunIds :
        ~runs[r].is_resume /\ runs[r].pc # "idle" =>
            /\ runs[r].session_id \in DOMAIN files
            /\ runs[r].pc \in {"done", "error"} =>
                  files[runs[r].session_id].payload.status \in {"done", "error"}

\* C18: every checkpoint on disk holds the original full research_plan of
\* its session, and its completed_dossiers and remaining_points are points
\* of that plan; also when a resumed run wrote it.
C18_CheckpointHoldsOriginalPlan ==
    \A session_id \in DOMAIN files :
        LET f == files[session_id]
        IN /\ f.payload.research_plan = f.origin
           /\ \A i \in DOMAIN f.payload.completed_dossiers :
                  \E j \in DOMAIN f.origin : f.origin[j] = f.payload.completed_dossiers[i]
           /\ \A i \in DOMAIN f.payload.remaining_points :
                  \E j \in DOMAIN f.origin : f.origin[j] = f.payload.remaining_points[i]

\* C19: two runs that are active at the same time never both write the
\* checkpoint file of the same session.
C19_OneWriterPerCheckpoint ==
    \A r1 \in RunIds : \A r2 \in RunIds \ {r1} :
        runs[r1].pc = "loop" /\ runs[r2].pc = "loop"
        /\ runs[r1].session_id = runs[r2].session_id
        => ~({r1, r2} \subseteq files[runs[r1].session_id].writers)

\* C20: listing sessions, loading a session and resuming a session treat a
\* missing or unparsable checkpoint.json as "no checkpoint": the list
\* leaves the session out, the load answers not found / not loadable, the
\* resume answers not found; none of them ends in a server error.
C20_BrokenCheckpointIsNoCheckpoint ==
    /\ listing \in {"none", "empty", "one_session"}
    /\ seen \in {"nothing", "no_file", "truncated", "snapshot"}
    /\ resume.called /\ resume.checkpoint = NoPayload => resume.reply = "not_found"

\* C21: a client that disconnects does not stop the run: a streaming Flat
\* run that takes no further step has reached its terminal state (done or
\* error), and done only with every point of its plan processed.
C21_DisconnectDoesNotStopRun ==
    \A r \in RunIds :
        runs[r].pc \notin {"idle", "loop"} =>
            /\ runs[r].pc \in {"done", "error"}
            /\ runs[r].pc = "done" => runs[r].remaining_points = <<>>

\* C22: the Final Synthesis call (Flat) and the Conclusion call (Academic)
\* run in a worker thread: while the call is in progress the loop's thread
\* is free, so other tasks are served, and synthesis_start /
\* meta_synthesis_start was yielded before the call started.
C22_FinalCallDoesNotBlockLoop ==
    loop.worker = "running" =>
        /\ ~loop.blocked
        /\ loop.stream # <<>>
        /\ loop.stream[Len(loop.stream)]
             = (IF loop.mode = "deep" THEN "synthesis_start" ELSE "meta_synthesis_start")
\* C22 witness: an Academic Conclusion call in progress during which
\* another task of the loop was served
C22_Witness ==
    /\ loop.mode = "academic" /\ loop.worker = "running"
    /\ loop.served_in_call > 0

\* C24: in an Academic run every bereich_start is followed by a
\* bereich_complete before the next bereich_start, meta_synthesis_start or
\* done, also for an area in which no dossier succeeded.
C24_BereichStartHasBereichComplete ==
    request.mode = "academic" =>
        \A i \in DOMAIN stream : \A j \in DOMAIN stream :
            (/\ i < j
             /\ stream[i].type = "bereich_start"
             /\ stream[j].type \in {"bereich_start", "meta_synthesis_start", "done"})
            => \E k \in DOMAIN stream :
                  i < k /\ k < j /\ stream[k].type = "bereich_complete"

\* C23: in Academic mode the previous learnings given to Think and to
\* Pick-URLs for a point of area A are key learnings of earlier completed
\* points of the same area A only, in the order of the points.
OwnAreaInOrder(learnings) ==
    /\ \A i \in DOMAIN learnings :
          /\ learnings[i].bereich = area.bereich_index
          /\ learnings[i].punkt < area.punkt_index
          /\ learnings[i] \in area.completed
    /\ \A i \in DOMAIN learnings : \A j \in DOMAIN learnings :
          i < j => learnings[i].punkt < learnings[j].punkt
C23_LearningsOfOwnAreaOnly ==
    area.pc \in {"think", "pick"} =>
        /\ OwnAreaInOrder(area.think_learnings)
        /\ OwnAreaInOrder(area.pick_learnings)
\* C23 witness: the third point of the second area is picked for with the
\* learnings of the two earlier points of its area, after the first area
\* had produced learnings of its own
C23_Witness ==
    /\ area.pc = "pick" /\ area.bereich_index = 2 /\ area.punkt_index = 3
    /\ Len(area.pick_learnings) = 2
    /\ Learning(1, 1) \in area.completed

\* C25: validate_url(url) is true exactly when all the listed conditions
\* hold (length, scheme, host present, no localhost variant, no internal
\* suffix, port not in the blocked list, IP literal not private, loopback,
\* link-local, reserved or multicast), false otherwise, and never raises.
C25_Listed(url) ==
    /\ url.length <= 2048
    /\ url.scheme \in {"http", "https"}
    /\ url.hostname # ""
    /\ url.hostname \notin {"localhost", "localhost.localdomain", "127.0.0.1",
                             "0.0.0.0", "::1", "[::1]"}
    /\ ~InternalTld(url.hostname)
    /\ url.port \notin {22, 23, 25, 3306, 5432, 6379, 11211, 27017}
    /\ IpFlags(url.hostname) \cap {"private", "loopback", "link_local",
                                   "reserved", "multicast"} = {}
C25_Navigated(url) == \E j \in DOMAIN nav.navigated : nav.navigated[j] = url
C25_ValidateUrlIffListed ==
    nav.caller \in {"setup", "flat", "academic"} =>
        \A i \in DOMAIN nav.urls :
            C25_Navigated(nav.urls[i]) <=> C25_Listed(nav.urls[i])
\* C25 as amended: ... and the port, when one is given, is one that urlparse
\* accepts (a number in 0..65535); a URL whose port is rejected is not valid.
C25_ValidateUrlIffListedAndPortParses ==
    nav.caller \in {"setup", "flat", "academic"} =>
        \A i \in DOMAIN nav.urls :
            C25_Navigated(nav.urls[i])
                <=> (C25_Listed(nav.urls[i]) /\ nav.urls[i].port >= 0)
\* C25 witness: a batch with a public https URL that was let through and
\* one with an unparsable port that was rejected
C25_Witness ==
    /\ nav.caller = "flat" /\ Len(nav.urls) = 2 /\ Len(nav.navigated) = 1
    /\ nav.urls[1].port = -1 /\ C25_Listed(nav.urls[1])
    /\ nav.navigated[1] = nav.urls[2]

\* C26: for a text that cites [N], the global index given to N has no
\* source_registry entry when N is outside 1..len(URLs) (N = 0 included)
\* and has the entry URLs[N-1] when N is inside.
C26_OutOfRangeCitationLeavesGap ==
    rn_out.done =>
        \A N \in FindLocalNums(rn_in.text) :
            LET g == LocalToGlobal(FindLocalNums(rn_in.text), rn_in.start)[N]
            IN IF N \in 1..Len(rn_in.urls)
               THEN g \in DOMAIN rn_out.registry /\ rn_out.registry[g] = rn_in.urls[N]
               ELSE g \notin DOMAIN rn_out.registry

\* C27: the global citation counter of a run starts at 1 and never
\* decreases; renumbering a dossier text raises it by exactly the number of
\* distinct [N] of that text, whatever the renumbering of key_learnings
\* does, and a skipped point leaves it unchanged.
C27_CounterGrowsByDistinctTokens ==
    /\ source_counter = 1
    /\ [][/\ source_counter' >= source_counter
          /\ last'.kind = "dossier" =>
                source_counter' = source_counter
                                    + Cardinality(FindLocalNums(last'.local_text))
          /\ last'.kind = "skipped" => source_counter' = source_counter]_vars
\* C27 witness: a dossier that cites two different numbers, with
\* key_learnings that cite one, after the counter had already moved
C27_Witness ==
    /\ last.kind = "dossier" /\ last.start > 1
    /\ Cardinality(FindLocalNums(last.local_text)) = 2
    /\ last.local_learnings # <<>>
    /\ source_counter = last.start + 2

\* the envelopes of the pipeline proper: without "starting" and "log"
StageEnvelopes(emitted) ==
    SelectSeq(emitted, LAMBDA e : e.type \notin {"starting", "log"})

StagePair(stage) ==
    <<AskEnv("stage_start", stage, 0, 0, 0), AskEnv("stage_content", stage, 0, 0, 0)>>

ScrapeRun(phase, total) ==
    <<AskEnv("scrape_start", "", phase, 0, 0)>>
    \o [i \in 1..total |-> AskEnv("scrape_progress", "", phase, i, total)]
    \o <<AskEnv("scrape_done", "", phase, 0, total)>>

SuccessfulAskRun(total_1, total_2) ==
    StagePair("C1") \o StagePair("C2") \o StagePair("C3") \o ScrapeRun(1, total_1)
    \o StagePair("C4") \o StagePair("C5") \o ScrapeRun(2, total_2)
    \o StagePair("C6") \o <<AskEnv("done", "", 0, 0, 0)>>

IsPrefixOf(s, t) == Len(s) <= Len(t) /\ s = SubSeq(t, 1, Len(s))

\* C28: the envelopes of an Ask run in which no stage raised are, at every
\* moment, a prefix of stage_start/stage_content of C1, C2, C3, the
\* scrape_start, scrape_progress 1..total, scrape_done of phase 1, C4, C5,
\* the same of phase 2, C6, done; and the whole of it once the run is done.
C28_AskEnvelopesInStageOrder ==
    (ask.kind = "session" /\ ask.pc \in {"stage", "llm_call", "scraping", "complete", "done"}) =>
        \E total_1 \in 0..MaxScrapeUrls, total_2 \in 0..MaxScrapeUrls :
            /\ IsPrefixOf(StageEnvelopes(ask.emitted), SuccessfulAskRun(total_1, total_2))
            /\ ask.pc = "done" =>
                   StageEnvelopes(ask.emitted) = SuccessfulAskRun(total_1, total_2)
\* C28 witness: a finished run with log envelopes in between, whose second
\* scrape phase reported two URLs and whose first reported none
C28_Witness ==
    /\ ask.kind = "session" /\ ask.pc = "done"
    /\ \E i \in DOMAIN ask.emitted : ask.emitted[i].type = "log"
    /\ \E i \in DOMAIN ask.emitted :
          ask.emitted[i] = AskEnv("scrape_progress", "", 2, 2, 2)
    /\ \E i \in DOMAIN ask.emitted :
          ask.emitted[i] = AskEnv("scrape_done", "", 1, 0, 0)

\* C29: an Ask session whose pipeline completed is marked completed in the
\* session registry and has its JSON journal file written; a session whose
\* pipeline failed is not marked completed.
C29_CompletedSessionIsJournaled ==
    ask.kind = "session" =>
        /\ ask.pc = "done" => (ask.registered /\ ask.completed /\ ask.journal)
        /\ ask.pc = "failed" => ~ask.completed

\* the records get_and_clear_log_buffer has handed out: the results of the
\* finished flushes and of those that have left the lock
HandedResults ==
    {logbuf.returned[i].logs : i \in DOMAIN logbuf.returned}
    \cup {logbuf.snapshot[f] : f \in {g \in Flushers : logbuf.pc[g] = "cleared"}}

Handed == UNION {Entries(logs) : logs \in HandedResults}

AppendedAt(record) == CHOOSE i \in DOMAIN logbuf.appended : logbuf.appended[i] = record

\* C30: in every interleaving of logging threads and flushes the buffer holds
\* at most maxlen entries, all of level WARNING or ERROR, what the deque
\* dropped is older than what it holds, no record is in two flush results,
\* and every record appended is in exactly one of: the buffer, one flush
\* result, the records dropped by overflow.
C30_EachRecordHandedOnce ==
    /\ Len(logbuf.buffer) <= MaxLogBuffer
    /\ \A r \in Entries(logbuf.buffer) \cup Handed : r.level \in {"WARNING", "ERROR"}
    /\ \A o \in logbuf.overflowed, b \in Entries(logbuf.buffer) : AppendedAt(o) < AppendedAt(b)
    /\ \A i, j \in DOMAIN logbuf.returned :
          i # j => Entries(logbuf.returned[i].logs) \cap Entries(logbuf.returned[j].logs) = {}
    /\ \A f \in Flushers :
          logbuf.pc[f] = "cleared" =>
              /\ \A i \in DOMAIN logbuf.returned :
                    Entries(logbuf.snapshot[f]) \cap Entries(logbuf.returned[i].logs) = {}
              /\ \A g \in Flushers \ {f} :
                    logbuf.pc[g] = "cleared" =>
                        Entries(logbuf.snapshot[f]) \cap Entries(logbuf.snapshot[g]) = {}
    /\ Entries(logbuf.appended) = Entries(logbuf.buffer) \cup Handed \cup logbuf.overflowed
    /\ Entries(logbuf.buffer) \cap Handed = {}
    /\ Entries(logbuf.buffer) \cap logbuf.overflowed = {}
    /\ Handed \cap logbuf.overflowed = {}
\* C30 witness: two flushes by different callers have each returned a
\* record
C30_Witness ==
    /\ Len(logbuf.returned) = 2
    /\ logbuf.returned[1].by # logbuf.returned[2].by
    /\ logbuf.returned[1].logs # <<>> /\ logbuf.returned[2].logs # <<>>

NoDuplicates(lst) == \A i, j \in DOMAIN lst : lst[i] = lst[j] => i = j

\* C32: a URL that the pick reply names more than once is kept once: the
\* list of the sources envelope (selected_urls) and the list of URLs the
\* scrape batch navigates to hold no URL twice.
C32_DuplicatePickKeptOnce ==
    pick.pc \in {"scrape", "scraped"} =>
        /\ NoDuplicates(pick.selected_urls)
        /\ NoDuplicates(pick.scraped)

\* C38: a point whose first pick selected exactly one safe URL is not
\* skipped, and its selection stays non-empty through the retry.
C38_RetryKeepsSinglePick ==
    (/\ pick.first_reply.given
     /\ Len(parse_pick_urls_response(pick.first_reply.urls)) = 1
     /\ pick.pc \in {"decide", "skipped", "scrape", "scraped"}) =>
        /\ pick.pc # "skipped"
        /\ pick.selected_urls # <<>>

\* C31: a scrape_urls_batch call is never left hanging or by an exception of
\* the browser close; what it returns is what was collected, whatever
\* navigation failed and however the close ended; and the keys of its result
\* are URLs that pass validate_url among the first MAX_URLS_PER_BATCH of the
\* input.
C31_BatchReturnsCollected ==
    /\ batch.pc \notin {"hung", "raised"}
    /\ batch.pc = "returned" => batch.returned = batch.read
    /\ batch.returned \cup batch.results \subseteq
          {u \in Entries(Take(batch.urls, MAX_URLS_PER_BATCH)) : validate_url(u)}
\* C31 witness: a call that collected a page, had a navigation fail, saw the
\* close time out and returned the page
C31_Witness ==
    /\ batch.pc = "returned" /\ batch.browser = "timeout"
    /\ batch.failed # {} /\ batch.returned # {}

\* the last search of the query text of position k
LastSearchOf(k) ==
    Max({j \in DOMAIN srch.log : srch.log[j].query = srch.queries[k]})

\* C33 as stated: the searches run one at a time in list order, the call
\* returns an entry for every query, and the entry of every query is what
\* its own search gave ([] when it raised), whatever the other searches did.
C33_EachQueryHasItsOwnResult ==
    /\ srch.in_flight <= 1
    /\ srch.pc # "raised"
    /\ \A j \in DOMAIN srch.log : srch.log[j].query = srch.queries[j]
    /\ srch.pc = "returned" =>
          /\ Len(srch.log) = Len(srch.queries)
          /\ \A k \in DOMAIN srch.queries :
                /\ srch.queries[k] \in DOMAIN srch.returned
                /\ srch.returned[srch.queries[k]] = srch.log[k].results
                /\ srch.log[k].outcome = "raised" => srch.returned[srch.queries[k]] = <<>>

\* C33 amended: the same, with the entry of a query text that occurs more
\* than once being what the last search of that text gave.
C33_EachQueryTextHasLastResult ==
    /\ srch.in_flight <= 1
    /\ srch.pc # "raised"
    /\ \A j \in DOMAIN srch.log : srch.log[j].query = srch.queries[j]
    /\ srch.pc = "returned" =>
          /\ Len(srch.log) = Len(srch.queries)
          /\ DOMAIN srch.returned = {srch.queries[k] : k \in DOMAIN srch.queries}
          /\ \A k \in DOMAIN srch.queries :
                /\ srch.returned[srch.queries[k]] = srch.log[LastSearchOf(k)].results
                /\ srch.log[LastSearchOf(k)].outcome = "raised" =>
                       srch.returned[srch.queries[k]] = <<>>
\* C33 witness: a returned call of three queries, the first of which raised
\* and the others had hits, one query text occurring twice
C33_Witness ==
    /\ srch.pc = "returned" /\ Len(srch.queries) = 3
    /\ srch.log[1].outcome = "raised" /\ srch.log[2].outcome = "hits"
    /\ srch.log[3].outcome = "hits"
    /\ srch.queries[1] = srch.queries[3] /\ srch.queries[2] # srch.queries[1]
    /\ srch.returned[srch.queries[2]] = <<2>>

C35_ConnectedSubscriberGetsDone ==
    [](sub.pc # "gone") =>
        ((/\ pipe.kind = "ask" /\ sub.pc = "listening"
          /\ \E i \in DOMAIN bus.emitted : bus.emitted[i].type = "done")
         ~> (sub.pc = "ended"))

\* C36: every LLM request of a session carries the headers that follow from
\* the API key and provider of that session's own request, whatever other
\* session started in between.
C36_LlmCallUsesOwnSessionKey ==
    \A i \in DOMAIN apicfg.sent :
        LET r == apicfg.sent[i].session
        IN apicfg.sent[i].headers =
             get_api_headers(set_api_config(apicfg.session[r].key, apicfg.session[r].provider))

\* C37: the log records handed to a session's flush, which become the log
\* envelopes of its stream, were produced while serving that session.
C37_LogEnvelopesOfOwnSession ==
    \A i \in DOMAIN logbuf.returned :
        \A record \in Entries(logbuf.returned[i].logs) :
            SessionOf[record.thread] = SessionOf[logbuf.returned[i].by]

ProgressEnvelopes == SelectSeq(par.emitted, LAMBDA e : e.type = "scrape_progress")

\* C39: in every interleaving of the scrape tasks the done values of the
\* scrape_progress envelopes are 1, 2, ... in emission order, there are
\* never more than n of them, and scrape_done is emitted after all n.
C39_ProgressCountsUpToN ==
    /\ Len(ProgressEnvelopes) <= par.total
    /\ \A i \in DOMAIN ProgressEnvelopes :
          ProgressEnvelopes[i].done = i /\ ProgressEnvelopes[i].total = par.total
    /\ \A i \in DOMAIN par.emitted :
          par.emitted[i].type = "scrape_done" =>
              /\ i = Len(par.emitted)
              /\ Len(ProgressEnvelopes) = par.total
\* C39 witness: a phase of three URLs whose tasks finished in another order
\* than they were created, with scrape_done out
C39_Witness ==
    /\ par.pc = "done" /\ par.total = 3
    /\ par.order = <<3, 1, 2>>
    /\ Len(ProgressEnvelopes) = 3

====
